---- MODULE Spec2Model ----
(***************************************************************************)
(* A model of ygen's proto3 generation (src/ygen/protogen.go): the message *)
(* synthesizer genProto3Msg / genListKeyProto / writeProto3Msg and the     *)
(* enum emitter writeProtoEnums / genProtoEnum.                            *)
(*                                                                         *)
(* Go strings are modelled as sequences of byte values, so that            *)
(* sort.Strings, strings.Replacer, strings.Split and fmt.Sprintf are       *)
(* computed byte by byte as the code computes them.  A Go map is a TLA+    *)
(* function; the order in which `range` walks a map is chosen by the       *)
(* action that runs the loop.                                              *)
(***************************************************************************)
EXTENDS Integers, Sequences, FiniteSets, TLC

VARIABLES
  msgs,          \* map[string]*yangDirectory: directory path -> directory
  state,         \* *genState: the name and package registry
  compressPaths, \* the compressPaths argument of the generation run
  genOut,        \* directory path -> what genProto3Msg returned for it
  writeOut,      \* directory path -> what writeProto3Msg returned for it
  keyOut,        \* directory path -> what genListKeyProto returned for it
  enums,         \* map[string]*yangEnum handed to writeProtoEnums
  enumRuns,      \* what the successive writeProtoEnums runs over enums returned
  enumOut,       \* enum key -> what genProtoEnum returned for its entry
  ident,         \* a name handed to the sanitizers
  fieldApps,     \* safeProtoFieldName(ident), then the same of that result, ...
  enumApps,      \* safeProtoEnumName(ident), then the same of that result, ...
  cmpFn,         \* the comparator of package testutil that is called
  cmpA, cmpB,    \* its two arguments
  cmpOut         \* what its calls returned

vars ==
  <<msgs, state, compressPaths, genOut, writeOut, keyOut, enums, enumRuns, enumOut,
    ident, fieldApps, enumApps, cmpFn, cmpA, cmpB, cmpOut>>
nameVars == <<ident, fieldApps, enumApps>>
cmpVars == <<cmpFn, cmpA, cmpB, cmpOut>>

msgVars == <<msgs, state, compressPaths, genOut, writeOut, keyOut>>
enumVars == <<enums, enumRuns, enumOut>>

----------------------------------------------------------------------------
(* Bounds of the model. *)

MaxFields == 3     \* children of one directory
MaxKeys == 2       \* key leaves of one list
MaxMembers == 2    \* members of one enumeration
MaxIdentities == 3 \* identities derived from one base
MaxEnums == 2      \* entries of the enums map
MaxRuns == 2       \* writeProtoEnums runs over the same enums map
MaxLen == 3        \* bytes of a name handed to the sanitizers
MaxApplications == 2   \* successive applications of one sanitizer
MaxElems == 2      \* elements of one gNMI path
MaxPathKeys == 2   \* keys of one path element
MaxUpdates == 2    \* updates, and deletes, of one notification

----------------------------------------------------------------------------
(* Bytes and string literals of the source. *)

cDot == 46
cHyphen == 45
cUnderscore == 95
cStar == 42
cSlash == 47
cSpace == 32

sUNSET == <<85, 78, 83, 69, 84>>   \* "UNSET"
sKeySuffix == <<95, 75, 101, 121>>   \* "_Key"
sEnumeration == <<101, 110, 117, 109, 101, 114, 97, 116, 105, 111, 110>>   \* "enumeration"
defaultBasePackageName == <<111, 112, 101, 110, 99, 111, 110, 102, 105, 103>>   \* "openconfig"
defaultEnumPackageName == <<101, 110, 117, 109, 115>>   \* "enums"

----------------------------------------------------------------------------
(* Go standard library pieces the code calls. *)

Min(S) == CHOOSE x \in S : \A y \in S : x <= y

\* The < of Go strings: byte-wise lexicographic.
StrLess(a, b) ==
  LET n == IF Len(a) < Len(b) THEN Len(a) ELSE Len(b)
      d == {i \in 1..n : a[i] # b[i]}
  IN  IF d = {} THEN Len(a) < Len(b) ELSE a[Min(d)] < b[Min(d)]

\* One insertion step: x goes after the elements that are not greater.
SortInsert(sorted, x) ==
  LET k == Cardinality({i \in 1..Len(sorted) : ~StrLess(x, sorted[i])})
  IN  SubSeq(sorted, 1, k) \o <<x>> \o SubSeq(sorted, k + 1, Len(sorted))

\* sort.Strings(s): the elements of s in ascending order.
RECURSIVE SortStrings(_)
SortStrings(s) ==
  IF s = <<>> THEN <<>>
  ELSE SortInsert(SortStrings(SubSeq(s, 1, Len(s) - 1)), s[Len(s)])

\* strings.Split(s, " ")
RECURSIVE Split(_)
Split(s) ==
  LET idx == {i \in 1..Len(s) : s[i] = cSpace}
  IN  IF idx = {} THEN <<s>>
      ELSE <<SubSeq(s, 1, Min(idx) - 1)>> \o Split(SubSeq(s, Min(idx) + 1, Len(s)))

\* strings.Join(parts, sep) for a one-byte separator.
RECURSIVE Join(_, _)
Join(parts, sep) ==
  IF parts = <<>> THEN <<>>
  ELSE IF Len(parts) = 1 THEN parts[1]
  ELSE parts[1] \o <<sep>> \o Join(Tail(parts), sep)

\* fmt.Sprintf("%s.%s", a, b)
SprintfDot(a, b) == a \o <<cDot>> \o b

\* fmt.Sprintf("%s/%s", a, b)
SprintfSlash(a, b) == a \o <<cSlash>> \o b

\* strings.Replace(s, ".", "/", -1)
ReplaceDotBySlash(s) == [i \in 1..Len(s) |-> IF s[i] = cDot THEN cSlash ELSE s[i]]

Range(s) == {s[i] : i \in 1..Len(s)}

\* How often x occurs in seq.
Count(seq, x) == Cardinality({i \in 1..Len(seq) : seq[i] = x})

\* The sequences that list every element of S exactly once: the orders in
\* which a `range` over a map with key set S may visit the keys.
Orders(S) == {o \in [1..Cardinality(S) -> S] : Range(o) = S}

----------------------------------------------------------------------------
(* Identifier sanitization. *)

\* A faulty variant: "." becomes "-", which a second pass rewrites again.
safeProtoFieldName_DotToHyphen(name) ==
  [i \in 1..Len(name) |->
     IF name[i] = cDot THEN cHyphen
     ELSE IF name[i] = cHyphen THEN cUnderscore ELSE name[i]]

safeProtoFieldName(name) ==
  [i \in 1..Len(name) |->
     IF name[i] \in {cDot, cHyphen} THEN cUnderscore ELSE name[i]]

safeProtoEnumName(name) ==
  [i \in 1..Len(name) |->
     IF name[i] \in {cDot, cStar, cSlash} THEN cUnderscore ELSE name[i]]

\* The names handed to the sanitizers: a letter, the bytes either replacer
\* rewrites, and the byte they write.
cLetter == 97
NameBytes == {cLetter, cDot, cHyphen, cStar, cSlash, cUnderscore}
Names == UNION {[1..n -> NameBytes] : n \in 0..MaxLen}

InitNames ==
  /\ ident \in Names
  /\ cmpFn = "" /\ cmpA = <<>> /\ cmpB = <<>> /\ cmpOut = <<>>
  /\ fieldApps = <<>>
  /\ enumApps = <<>>
  /\ msgs = <<>>
  /\ state = <<>>
  /\ compressPaths = FALSE
  /\ genOut = <<>>
  /\ writeOut = <<>>
  /\ keyOut = <<>>
  /\ enums = <<>>
  /\ enumRuns = <<>>
  /\ enumOut = <<>>

\* safeProtoFieldName, called on ident and then on what it returned.
SafeProtoFieldName ==
  /\ Len(fieldApps) < MaxApplications
  /\ fieldApps' =
       Append(fieldApps,
              safeProtoFieldName(IF fieldApps = <<>> THEN ident
                                 ELSE fieldApps[Len(fieldApps)]))
  /\ UNCHANGED <<ident, enumApps>>
  /\ UNCHANGED cmpVars
  /\ UNCHANGED <<msgs, state, compressPaths, genOut, writeOut, keyOut>>
  /\ UNCHANGED <<enums, enumRuns, enumOut>>

\* safeProtoEnumName, called on ident and then on what it returned.
SafeProtoEnumName ==
  /\ Len(enumApps) < MaxApplications
  /\ enumApps' =
       Append(enumApps,
              safeProtoEnumName(IF enumApps = <<>> THEN ident
                                ELSE enumApps[Len(enumApps)]))
  /\ UNCHANGED <<ident, fieldApps>>
  /\ UNCHANGED cmpVars
  /\ UNCHANGED <<msgs, state, compressPaths, genOut, writeOut, keyOut>>
  /\ UNCHANGED <<enums, enumRuns, enumOut>>

NextNames == SafeProtoFieldName \/ SafeProtoEnumName

SpecNames == InitNames /\ [][NextNames]_vars

\* C15: a second application of a sanitizer returns what the first
\* returned, for safeProtoFieldName and for safeProtoEnumName.
C15_SanitizeIdempotent ==
  /\ \A i \in 2..Len(fieldApps) : fieldApps[i] = fieldApps[1]
  /\ \A i \in 2..Len(enumApps) : enumApps[i] = enumApps[1]

\* C15's case: both sanitizers have run twice on a name that each of them
\* rewrites.
C15_Witness ==
  /\ Len(fieldApps) = 2 /\ Len(enumApps) = 2
  /\ fieldApps[1] # ident /\ enumApps[1] # ident
  /\ fieldApps[1] # enumApps[1]

----------------------------------------------------------------------------
(* The schema tree handed to the generator (goyang's yang.Entry and        *)
(* yang.YangType, ygen's yangDirectory and yangEnum), as far as the code   *)
(* reads it.                                                               *)

\* A nil *yang.Identity.
NoIdentity == [Nil |-> TRUE, Name |-> <<>>, Values |-> <<>>]

\* The Type of an entry that is no leaf.
NoType ==
  [Kind |-> "Ynone", Name |-> <<>>, Enum |-> <<>>, IdentityBase |-> NoIdentity,
   Type |-> <<>>]

\* yang.Entry.  Path lists the names of the entry's ancestors and its own,
\* outermost first; Parent is nil when Path holds the entry's name alone.
\* ListAttr is TRUE when the ListAttr pointer is not nil.  Default is what
\* DefaultValue() returns.
Entry(name, kind, listAttr, path, key, type, default) ==
  [Name |-> name, Kind |-> kind, ListAttr |-> listAttr, Path |-> path,
   Key |-> key, Type |-> type, Default |-> default]

IsList(e) == e.Kind = "Directory" /\ e.ListAttr
IsDir(e) == e.Kind = "Directory"
IsLeaf(e) == e.Kind = "Leaf" /\ ~e.ListAttr
IsLeafList(e) == e.Kind = "Leaf" /\ e.ListAttr

\* yang.Entry.Path(): "/" before every element.
RECURSIVE PathString(_)
PathString(path) ==
  IF path = <<>> THEN <<>> ELSE <<cSlash>> \o Head(path) \o PathString(Tail(path))

EntryPath(e) == PathString(e.Path)

HasParent(e) == Len(e.Path) > 1

\* Errors are kept as the format string's gist and the value it names.
Error(what, subject) == [what |-> what, subject |-> subject]

----------------------------------------------------------------------------
(* The enum emitter. *)

sYANGIdentity == <<89, 65, 78, 71, 32, 105, 100, 101, 110, 116, 105, 116, 121, 32>>   \* "YANG identity "
sYANGTypedef == <<89, 65, 78, 71, 32, 116, 121, 112, 101, 100, 101, 102, 32>>   \* "YANG typedef "

\* A faulty variant: it forgets the "+ 1" that keeps declared members off value 0.
genProtoEnum_NoShift(field) ==
  LET names == field.Type.Enum
      d == field.Default
      others == {n \in DOMAIN names : n # d}
  IN  IF d # <<>> /\ d \notin DOMAIN names
      THEN [ok |-> FALSE, Values |-> <<>>, err |-> <<Error("invalid default", d)>>]
      ELSE [ok |-> TRUE,
            Values |-> [k \in {0} \cup {names[n] : n \in others} |->
                          IF \E n \in others : names[n] = k
                          THEN safeProtoEnumName(CHOOSE n \in others : names[n] = k)
                          ELSE IF d # <<>> THEN d ELSE sUNSET],
            err |-> <<>>]

\* A faulty variant: it accepts a default that names no member.
genProtoEnum_AnyDefault(field) ==
  LET names == field.Type.Enum
      d == field.Default
      others == {n \in DOMAIN names : n # d}
  IN  [ok |-> TRUE,
       Values |-> [k \in {0} \cup {names[n] + 1 : n \in others} |->
                     IF \E n \in others : names[n] + 1 = k
                     THEN safeProtoEnumName(CHOOSE n \in others : names[n] + 1 = k)
                     ELSE IF d # <<>> THEN d ELSE sUNSET],
       err |-> <<>>]

\* genProtoEnum(field): eval[0] is "UNSET", or the default as it is written
\* in the schema; every other member n is then written at Value(n)+1 under
\* its sanitized name.  goyang keeps the values of one enumeration distinct,
\* so the loop's writes hit distinct keys and the result does not depend on
\* the order of the range over names; a write to key 0 replaces eval[0].
\* ok = FALSE stands for the nil *protoMsgEnum returned with the error.
genProtoEnum(field) ==
  LET names == field.Type.Enum
      d == field.Default
      others == {n \in DOMAIN names : n # d}
  IN  IF d # <<>> /\ d \notin DOMAIN names
      THEN [ok |-> FALSE, Values |-> <<>>, err |-> <<Error("invalid default", d)>>]
      ELSE [ok |-> TRUE,
            Values |-> [k \in {0} \cup {names[n] + 1 : n \in others} |->
                          IF \E n \in others : names[n] + 1 = k
                          THEN safeProtoEnumName(CHOOSE n \in others : names[n] + 1 = k)
                          ELSE IF d # <<>> THEN d ELSE sUNSET],
            err |-> <<>>]

\* The identity branch without its sort.Strings call.
identityValues_Unsorted(values) ==
  LET names == [i \in 1..Len(values) |-> safeProtoEnumName(values[i])]
  IN  [k \in 0..Len(names) |-> IF k = 0 THEN sUNSET ELSE names[k]]

\* The value table of an identityref enum: the sanitized identity names,
\* sorted, at 1..n, and "UNSET" at 0.
identityValues(values) ==
  LET names == SortStrings([i \in 1..Len(values) |-> safeProtoEnumName(values[i])])
  IN  [k \in 0..Len(names) |-> IF k = 0 THEN sUNSET ELSE names[k]]

\* Integers in ascending order, as text/template ranges over a map's keys.
RECURSIVE SortedKeys(_)
SortedKeys(S) == IF S = {} THEN <<>> ELSE <<Min(S)>> \o SortedKeys(S \ {Min(S)})

\* protoTemplates["enum"].Execute: the text is the enum's name, its
\* description and one "<Name>_<val> = <i>;" line per value, by ascending i.
\* The text is kept as these parts.
enumTemplate(p) ==
  [Name |-> p.Name, Description |-> p.Description,
   Lines |-> LET ks == SortedKeys(DOMAIN p.Values)
             IN  [i \in 1..Len(ks) |-> <<ks[i], p.Values[ks[i]]>>]]

\* One iteration of the loop of writeProtoEnums; acc holds errs and genEnums.
writeProtoEnumsStep(acc, enum) ==
  LET t == enum.entry.Type
      emit(values, description) ==
        [acc EXCEPT !.genEnums =
           Append(@, enumTemplate([Name |-> enum.name, Description |-> description,
                                   Values |-> values]))]
  IN  IF t.Kind = "Yenum" /\ t.Name = sEnumeration THEN acc
      ELSE IF ~t.IdentityBase.Nil
      THEN emit(identityValues(t.IdentityBase.Values), sYANGIdentity \o t.IdentityBase.Name)
      ELSE IF t.Kind = "Yenum"
      THEN LET ge == genProtoEnum(enum.entry)
           IN  IF ~ge.ok THEN [acc EXCEPT !.errs = @ \o ge.err]
               ELSE emit(ge.Values, sYANGTypedef \o t.Name)
      ELSE IF Len(t.Type) # 0
      THEN [acc EXCEPT !.errs = Append(@, Error("unimplemented: union", enum.name))]
      ELSE \* the default case appends its error and goes on to the template
           [errs |-> Append(acc.errs, Error("unknown type of enumerated value", enum.name)),
            genEnums |-> Append(acc.genEnums,
                           enumTemplate([Name |-> enum.name, Description |-> <<>>,
                                         Values |-> <<>>]))]

RECURSIVE writeProtoEnumsLoop(_, _, _)
writeProtoEnumsLoop(es, order, acc) ==
  IF order = <<>> THEN acc
  ELSE writeProtoEnumsLoop(es, Tail(order), writeProtoEnumsStep(acc, es[Head(order)]))

\* A faulty variant: it returns the enums generated so far along with the errors.
writeProtoEnums_KeepPartial(es, order) ==
  writeProtoEnumsLoop(es, order, [errs |-> <<>>, genEnums |-> <<>>])

\* writeProtoEnums(enums), with the range over the map visiting `order`.
writeProtoEnums(es, order) ==
  LET r == writeProtoEnumsLoop(es, order, [errs |-> <<>>, genEnums |-> <<>>])
  IN  IF Len(r.errs) # 0 THEN [genEnums |-> <<>>, errs |-> r.errs]
      ELSE [genEnums |-> r.genEnums, errs |-> <<>>]

----------------------------------------------------------------------------
(* The name and package registry and the type mapper.  Their code is in    *)
(* files of the package that are not part of this source tree; they are    *)
(* modelled from the specification's sections 4.1 and 4.2.                 *)

sStringValue == <<121, 119, 114, 97, 112, 112, 101, 114, 46, 83, 116, 114, 105, 110, 103, 86, 97, 108, 117, 101>>   \* "ywrapper.StringValue"
sString == <<115, 116, 114, 105, 110, 103>>   \* "string"

\* disambiguate(candidate, usedNamesInScope): the candidate, lengthened by
\* "_" until it is free in the scope, and the scope with the result claimed.
RECURSIVE makeNameUnique(_, _)
makeNameUnique(name, definedNames) ==
  IF name \notin definedNames
  THEN [name |-> name, defined |-> definedNames \cup {name}]
  ELSE makeNameUnique(Append(name, cUnderscore), definedNames)

\* a, followed by the entries of b that are not in it yet.
RECURSIVE appendEntriesNotIn(_, _)
appendEntriesNotIn(a, b) ==
  IF b = <<>> THEN a
  ELSE appendEntriesNotIn(IF Head(b) \in Range(a) THEN a ELSE Append(a, Head(b)), Tail(b))

\* slicePathToString(msg.path)
slicePathToString(path) == PathString(path)

\* packageFor(node, compressPaths): the sanitized names of the node's
\* ancestors joined by "."; under path compression the container that
\* surrounds a list is collapsed.  The registry remembers the package it
\* gave to the children of one parent.
protobufPackage(st, e, compress) ==
  LET up == IF compress /\ IsList(e) /\ Len(e.Path) > 2 THEN 2 ELSE 1
      parent == SubSeq(e.Path, 1, Len(e.Path) - up)
      key == PathString(parent)
      n == Join([i \in 1..Len(parent) |-> safeProtoFieldName(parent[i])], cDot)
  IN  IF key \in DOMAIN st.uniqueProtoPackages
      THEN [pkg |-> st.uniqueProtoPackages[key], state |-> st]
      ELSE [pkg |-> n,
            state |-> [st EXCEPT !.uniqueProtoPackages = (key :> n) @@ @]]

Upper(c) == IF c \in 97..122 THEN c - 32 ELSE c

\* The synthesized type name of an enumeration: the schema name in CamelCase.
RECURSIVE CamelFrom(_, _)
CamelFrom(s, up) ==
  IF s = <<>> THEN <<>>
  ELSE IF Head(s) \in {cHyphen, cDot, cUnderscore} THEN CamelFrom(Tail(s), TRUE)
  ELSE <<IF up THEN Upper(Head(s)) ELSE Head(s)>> \o CamelFrom(Tail(s), FALSE)

CamelCase(s) == CamelFrom(s, TRUE)

\* mapType(typeDescriptor, key context = FALSE): strings map to a wrapper
\* message, an inline enumeration to a synthesized enum name, a typedef
\* enumeration or an identityref to the shared enum of the enum package;
\* any other kind is an UnsupportedTypeError.
yangTypeToProtoType(field, basePackageName, enumPackageName) ==
  LET t == field.Type
  IN  IF t.Kind = "Ystring" THEN [nativeType |-> sStringValue, err |-> <<>>]
      ELSE IF t.Kind = "Yenum" /\ t.Name = sEnumeration
      THEN [nativeType |-> CamelCase(field.Name), err |-> <<>>]
      ELSE IF t.Kind = "Yenum"
      THEN [nativeType |-> SprintfDot(SprintfDot(basePackageName, enumPackageName),
                                      CamelCase(t.Name)),
            err |-> <<>>]
      ELSE IF t.Kind = "Yidentityref"
      THEN [nativeType |-> SprintfDot(SprintfDot(basePackageName, enumPackageName),
                                      CamelCase(t.IdentityBase.Name)),
            err |-> <<>>]
      ELSE [nativeType |-> <<>>, err |-> <<Error("unsupported type", field.Name)>>]

\* mapType(typeDescriptor, key context = TRUE): a scalar or an enum name; a
\* resolution that is neither is a KeyTypeError.
yangTypeToProtoScalarType(field) ==
  LET t == field.Type
  IN  IF t.Kind = "Ystring" THEN [nativeType |-> sString, err |-> <<>>]
      ELSE IF t.Kind = "Yenum" /\ t.Name = sEnumeration
      THEN [nativeType |-> CamelCase(field.Name), err |-> <<>>]
      ELSE IF t.Kind = "Yenum"
      THEN [nativeType |-> SprintfDot(SprintfDot(defaultBasePackageName,
                                                 defaultEnumPackageName),
                                      CamelCase(t.Name)),
            err |-> <<>>]
      ELSE [nativeType |-> <<>>, err |-> <<Error("key type", field.Name)>>]

----------------------------------------------------------------------------
(* The message synthesizer. *)

\* protoMsgField.  Src is not a field of the struct: it records the key of
\* the fields map, or of the list's key, that the field was built from
\* (empty for the wrapper's reference to the list message), so that
\* properties can tell which schema child a field stands for.
protoMsgField(tag, name, type, isRepeated, src) ==
  [Tag |-> tag, Name |-> name, Type |-> type, IsRepeated |-> isRepeated, Src |-> src]

\* protoMsg
protoMsg(name, yangPath, fields, imports, enumMap) ==
  [Name |-> name, YANGPath |-> yangPath, Fields |-> fields, Imports |-> imports,
   Enums |-> enumMap]

\* protoTagForEntry(e): the placeholder returns 1 and no error.
protoTagForEntry(e) == [tag |-> 1, err |-> <<>>]

\* One iteration of the loop of genListKeyProto over the key k; acc holds
\* km's Fields and Enums, definedFieldNames, ctag and the error that ended
\* the function, if any.
genListKeyProtoStep(list, acc, k) ==
  IF acc.err # <<>> THEN acc
  ELSE IF k \notin DOMAIN list.fields
  THEN [acc EXCEPT !.err = <<Error("list included a key that did not exist", k)>>]
  ELSE
    LET kf == list.fields[k]
        t == yangTypeToProtoScalarType(kf)
        isEnum == kf.Type.Kind = "Yenum" /\ kf.Type.Name = sEnumeration
        enum == genProtoEnum(kf)
        pt == IF isEnum THEN makeNameUnique(t.nativeType, acc.defined)
              ELSE [name |-> t.nativeType, defined |-> acc.defined]
        fn == makeNameUnique(safeProtoFieldName(k), pt.defined)
    IN  IF t.err # <<>>
        THEN [acc EXCEPT !.err = <<Error("list key without a valid proto type", k)>>]
        ELSE IF isEnum /\ ~enum.ok
        THEN [acc EXCEPT !.err = <<Error("error generating type for list key", k)>>]
        ELSE [Fields |-> Append(acc.Fields, protoMsgField(acc.ctag, fn.name, pt.name, FALSE, k)),
              Enums |-> IF isEnum THEN (pt.name :> [Values |-> enum.Values]) @@ acc.Enums
                        ELSE acc.Enums,
              defined |-> fn.defined,
              ctag |-> acc.ctag + 1,
              err |-> <<>>]

RECURSIVE genListKeyProtoLoop(_, _, _)
genListKeyProtoLoop(list, keys, acc) ==
  IF keys = <<>> THEN acc
  ELSE genListKeyProtoLoop(list, Tail(keys), genListKeyProtoStep(list, acc, Head(keys)))

EmptyMsg == protoMsg(<<>>, <<>>, <<>>, <<>>, <<>>)

\* What genListKeyProto returns once its loop over the keys has left r: the
\* error that ended the loop, or km with the reference to the list's message
\* appended under the next tag.
genListKeyProtoReturn(list, listName, listPackage, r) ==
  IF r.err # <<>> THEN [ok |-> FALSE, msg |-> EmptyMsg, err |-> r.err]
  ELSE [ok |-> TRUE,
        msg |-> protoMsg(listName \o sKeySuffix, EntryPath(list.entry),
                  Append(r.Fields,
                         protoMsgField(r.ctag, listName,
                                       SprintfDot(listPackage, listName), FALSE, <<>>)),
                  <<>>, r.Enums),
        err |-> <<>>]

\* A faulty variant: it walks the keys in sorted order.
genListKeyProto_SortedKeys(list, listName, listPackage) ==
  genListKeyProtoReturn(list, listName, listPackage,
    genListKeyProtoLoop(list, SortStrings(Split(list.entry.Key)),
      [Fields |-> <<>>, Enums |-> <<>>, defined |-> {}, ctag |-> 1, err |-> <<>>]))

\* genListKeyProto(list, listName, listPackage, state): the key fields in
\* the order of the list's key statement, then the reference to the list's
\* message.  ok = FALSE stands for the empty protoMsg returned with an error.
genListKeyProto(list, listName, listPackage) ==
  genListKeyProtoReturn(list, listName, listPackage,
    genListKeyProtoLoop(list, Split(list.entry.Key),
      [Fields |-> <<>>, Enums |-> <<>>, defined |-> {}, ctag |-> 1, err |-> <<>>]))

\* A faulty variant: it skips nothing.
skipFields_None(msg) == {}

\* The set of names genProto3Msg leaves out of the message: the keys of a
\* keyed list.
skipFields(msg) ==
  IF IsList(msg.entry) /\ msg.entry.Key # <<>> THEN Range(Split(msg.entry.Key)) ELSE {}

\* A faulty variant: it sets the field's type and drops the wrapper.
genProto3MsgKeyedList_NoWrapper(a, field, fieldDef, lk) ==
  IF ~lk.ok
  THEN [a EXCEPT !.errs = Append(@, Error("could not build mapping for list entry", EntryPath(field)))]
  ELSE [a EXCEPT !.Fields = Append(@,
                    [fieldDef EXCEPT !.Type = lk.msg.Name, !.IsRepeated = TRUE])]

\* The keyed list: lk is what genListKeyProto returned for it.
genProto3MsgKeyedList(a, field, fieldDef, lk) ==
  IF ~lk.ok
  THEN [a EXCEPT !.errs = Append(@, Error("could not build mapping for list entry", EntryPath(field)))]
  ELSE [a EXCEPT !.msgDefs = Append(@, lk.msg),
                 !.Fields = Append(@,
                    [fieldDef EXCEPT !.Type = lk.msg.Name, !.IsRepeated = TRUE])]

\* The list case of the switch of genProto3Msg.  a is the loop's state, with
\* the field's name already claimed; fieldDef has its Name and Tag.
genProto3MsgList(ms, compress, a, field, fieldDef) ==
  IF EntryPath(field) \notin DOMAIN ms
  THEN [a EXCEPT !.errs = Append(@, Error("could not resolve list", EntryPath(field)))]
  ELSE IF EntryPath(field) \notin DOMAIN a.state.uniqueDirectoryNames
  THEN [a EXCEPT !.errs = Append(@, Error("could not find unique message name", EntryPath(field)))]
  ELSE
    LET listMsg == ms[EntryPath(field)]
        listMsgName == a.state.uniqueDirectoryNames[EntryPath(field)]
        pp == protobufPackage(a.state, listMsg.entry, compress)
        a2 == [a EXCEPT !.state = pp.state]
    IN  IF listMsg.listAttr.Nil \/ Cardinality(listMsg.listAttr.keys) = 0
        THEN [a2 EXCEPT !.Fields = Append(@,
                [fieldDef EXCEPT !.Type = SprintfDot(pp.pkg, listMsgName),
                                 !.IsRepeated = TRUE])]
        ELSE genProto3MsgKeyedList(a2, field, fieldDef,
                                   genListKeyProto(listMsg, listMsgName, pp.pkg))

\* A faulty variant: it sets the type and forgets the import.
genProto3MsgDir_NoImport(ms, compress, a, field, fieldDef) ==
  IF EntryPath(field) \notin DOMAIN ms
  THEN [a EXCEPT !.errs = Append(@, Error("could not resolve into a defined struct", EntryPath(field)))]
  ELSE
    LET childmsg == ms[EntryPath(field)]
        pp == protobufPackage(a.state, childmsg.entry, compress)
    IN  [a EXCEPT !.state = pp.state,
                  !.Fields = Append(@,
                     [fieldDef EXCEPT !.Type = SprintfDot(pp.pkg, childmsg.name)])]

\* A faulty variant: it appends the import without looking for it.
genProto3MsgDir_AppendImport(ms, compress, a, field, fieldDef) ==
  IF EntryPath(field) \notin DOMAIN ms
  THEN [a EXCEPT !.errs = Append(@, Error("could not resolve into a defined struct", EntryPath(field)))]
  ELSE
    LET childmsg == ms[EntryPath(field)]
        pp == protobufPackage(a.state, childmsg.entry, compress)
    IN  [a EXCEPT !.state = pp.state,
                  !.imports = Append(@, ReplaceDotBySlash(pp.pkg)),
                  !.Fields = Append(@,
                     [fieldDef EXCEPT !.Type = SprintfDot(pp.pkg, childmsg.name)])]

\* The directory case.
genProto3MsgDir(ms, compress, a, field, fieldDef) ==
  IF EntryPath(field) \notin DOMAIN ms
  THEN [a EXCEPT !.errs = Append(@, Error("could not resolve into a defined struct", EntryPath(field)))]
  ELSE
    LET childmsg == ms[EntryPath(field)]
        pp == protobufPackage(a.state, childmsg.entry, compress)
    IN  [a EXCEPT !.state = pp.state,
                  !.imports = appendEntriesNotIn(@, <<ReplaceDotBySlash(pp.pkg)>>),
                  !.Fields = Append(@,
                     [fieldDef EXCEPT !.Type = SprintfDot(pp.pkg, childmsg.name)])]

\* A faulty variant: it names the embedded enum without looking at the names
\* the message has claimed.
genProto3MsgLeaf_NameNotUnique(basePackageName, enumPackageName, a, field, fieldDef) ==
  LET protoType == yangTypeToProtoType(field, basePackageName, enumPackageName)
      isEnum == field.Type.Kind = "Yenum" /\ field.Type.Name = sEnumeration
      isShared == ~isEnum /\ field.Type.Kind \in {"Yenum", "Yidentityref"}
      enum == genProtoEnum(field)
      err == IF isEnum /\ ~enum.ok THEN enum.err ELSE protoType.err
      a2 == IF isEnum /\ enum.ok
            THEN [a EXCEPT !.Enums = (protoType.nativeType :> [Values |-> enum.Values]) @@ @]
            ELSE IF isShared
            THEN [a EXCEPT !.imports = appendEntriesNotIn(@,
                    <<SprintfSlash(basePackageName, enumPackageName)>>)]
            ELSE a
  IN  IF err # <<>> THEN [a2 EXCEPT !.errs = @ \o err]
      ELSE [a2 EXCEPT !.Fields = Append(@,
              [fieldDef EXCEPT !.Type = protoType.nativeType,
                               !.IsRepeated = field.ListAttr])]

\* The leaf and leaf-list case.
genProto3MsgLeaf(basePackageName, enumPackageName, a, field, fieldDef) ==
  LET protoType == yangTypeToProtoType(field, basePackageName, enumPackageName)
      isEnum == field.Type.Kind = "Yenum" /\ field.Type.Name = sEnumeration
      isShared == ~isEnum /\ field.Type.Kind \in {"Yenum", "Yidentityref"}
      enum == genProtoEnum(field)
      e == makeNameUnique(protoType.nativeType, a.defined)
      err == IF isEnum /\ ~enum.ok THEN enum.err ELSE protoType.err
      a2 == IF isEnum /\ enum.ok
            THEN [a EXCEPT !.defined = e.defined,
                           !.Enums = (e.name :> [Values |-> enum.Values]) @@ @]
            ELSE IF isShared
            THEN [a EXCEPT !.imports = appendEntriesNotIn(@,
                    <<SprintfSlash(basePackageName, enumPackageName)>>)]
            ELSE a
      type == IF isEnum THEN (IF enum.ok THEN e.name ELSE <<>>) ELSE protoType.nativeType
  IN  IF err # <<>> THEN [a2 EXCEPT !.errs = @ \o err]
      ELSE [a2 EXCEPT !.Fields = Append(@,
              [fieldDef EXCEPT !.Type = type, !.IsRepeated = field.ListAttr])]

\* One iteration of the loop of genProto3Msg over the field called name.
genProto3MsgStep(msg, ms, compress, basePackageName, enumPackageName, acc, name) ==
  IF name \in skipFields(msg) THEN acc
  ELSE
    LET field == msg.fields[name]
        u == makeNameUnique(safeProtoFieldName(name), acc.defined)
        a == [acc EXCEPT !.defined = u.defined]
        t == protoTagForEntry(field)
        fieldDef == protoMsgField(t.tag, u.name, <<>>, FALSE, name)
    IN  IF t.err # <<>>
        THEN [a EXCEPT !.errs = Append(@, Error("could not generate tag", field.Name))]
        ELSE IF IsList(field) THEN genProto3MsgList(ms, compress, a, field, fieldDef)
        ELSE IF IsDir(field) THEN genProto3MsgDir(ms, compress, a, field, fieldDef)
        ELSE IF IsLeaf(field) \/ IsLeafList(field)
        THEN genProto3MsgLeaf(basePackageName, enumPackageName, a, field, fieldDef)
        ELSE [a EXCEPT !.errs = Append(@, Error("unknown field type", field.Name))]

\* A faulty variant: it leaves the loop at the first error.
RECURSIVE genProto3MsgLoop_StopAtError(_, _, _, _, _, _, _)
genProto3MsgLoop_StopAtError(msg, ms, compress, basePackageName, enumPackageName, acc, fNames) ==
  IF fNames = <<>> \/ acc.errs # <<>> THEN acc
  ELSE genProto3MsgLoop_StopAtError(msg, ms, compress, basePackageName, enumPackageName,
         genProto3MsgStep(msg, ms, compress, basePackageName, enumPackageName, acc,
                          Head(fNames)),
         Tail(fNames))

RECURSIVE genProto3MsgLoop(_, _, _, _, _, _, _)
genProto3MsgLoop(msg, ms, compress, basePackageName, enumPackageName, acc, fNames) ==
  IF fNames = <<>> THEN acc
  ELSE genProto3MsgLoop(msg, ms, compress, basePackageName, enumPackageName,
         genProto3MsgStep(msg, ms, compress, basePackageName, enumPackageName, acc,
                          Head(fNames)),
         Tail(fNames))

\* A faulty variant: it leaves out sort.Strings.
fieldNames_Unsorted(order) == order

\* fNames as the field loop walks it: the names appended in the order
\* in which the range over msg.fields visited them, then sorted.
fieldNames(order) == SortStrings(order)

\* Every fNames that some order of the range over msg.fields leads to.
FieldNameLists(msg) == {fieldNames(order) : order \in Orders(DOMAIN msg.fields)}

\* What genProto3Msg returns once its loop over the fields has left r.
genProto3MsgReturn(msg, r) ==
  [msgDefs |-> Append(r.msgDefs,
                 protoMsg(msg.name, slicePathToString(msg.path), r.Fields,
                          r.imports, r.Enums)),
   errs |-> r.errs,
   state |-> r.state]

\* genProto3Msg(msg, msgs, state, compressPaths, basePackageName,
\* enumPackageName) from the point where fNames is built.  Returns the
\* message records (the key wrappers, then the message of msg), the errors
\* and the registry as the call leaves it.
genProto3Msg(msg, ms, st, compress, basePackageName, enumPackageName, fNames) ==
  genProto3MsgReturn(msg,
    genProto3MsgLoop(msg, ms, compress, basePackageName, enumPackageName,
      [msgDefs |-> <<>>, Fields |-> <<>>, Enums |-> <<>>, imports |-> <<>>,
       defined |-> {}, errs |-> <<>>, state |-> st],
      fNames))

\* Strings in ascending order, as text/template ranges over a map's keys.
RECURSIVE SortedNames(_)
SortedNames(S) ==
  IF S = {} THEN <<>>
  ELSE LET least == CHOOSE x \in S : \A y \in S \ {x} : StrLess(x, y)
       IN  <<least>> \o SortedNames(S \ {least})

\* protoTemplates["msg"].Execute: the text names the message and its path,
\* then holds the embedded enums by ascending name, each with its values by
\* ascending number, then one line per field.  The text is kept as these
\* parts.
msgTemplate(msgDef) ==
  [Name |-> msgDef.Name, YANGPath |-> msgDef.YANGPath,
   Enums |-> LET ns == SortedNames(DOMAIN msgDef.Enums)
             IN  [i \in 1..Len(ns) |->
                    [Name |-> ns[i],
                     Lines |-> LET ks == SortedKeys(DOMAIN msgDef.Enums[ns[i]].Values)
                               IN  [j \in 1..Len(ks) |->
                                      <<ks[j], msgDef.Enums[ns[i]].Values[ks[j]]>>]]],
   Fields |-> [i \in 1..Len(msgDef.Fields) |->
                 [IsRepeated |-> msgDef.Fields[i].IsRepeated,
                  Type |-> msgDef.Fields[i].Type,
                  Name |-> msgDef.Fields[i].Name,
                  Tag |-> msgDef.Fields[i].Tag]]]

RECURSIVE collectImports(_, _)
collectImports(imports, msgDefs) ==
  IF msgDefs = <<>> THEN imports
  ELSE collectImports(appendEntriesNotIn(imports, Head(msgDefs).Imports), Tail(msgDefs))

\* A faulty variant: it renders the records even when genProto3Msg reported
\* errors.
writeProto3MsgFrom_KeepCode(msg, compress, g) ==
  LET pp == protobufPackage(g.state, msg.entry, compress)
  IN  [pkg |-> pp.pkg,
       code |-> [i \in 1..Len(g.msgDefs) |-> msgTemplate(g.msgDefs[i])],
       imports |-> collectImports(<<>>, g.msgDefs), importsNil |-> FALSE,
       errs |-> g.errs, state |-> pp.state]

\* writeProto3Msg after its call of genProto3Msg has returned g.
\* code is the buffer as the sequence of the texts written to it;
\* importsNil tells the nil slice of the error returns from an empty one.
writeProto3MsgFrom(msg, compress, g) ==
  LET pp == protobufPackage(g.state, msg.entry, compress)
  IN  IF Len(g.errs) > 0
      THEN [pkg |-> <<>>, code |-> <<>>, imports |-> <<>>, importsNil |-> TRUE,
            errs |-> g.errs, state |-> g.state]
      ELSE IF ~HasParent(msg.entry)
      THEN [pkg |-> <<>>, code |-> <<>>, imports |-> <<>>, importsNil |-> TRUE,
            errs |-> <<Error("does not have a parent", EntryPath(msg.entry))>>,
            state |-> g.state]
      ELSE [pkg |-> pp.pkg,
            code |-> [i \in 1..Len(g.msgDefs) |-> msgTemplate(g.msgDefs[i])],
            imports |-> collectImports(<<>>, g.msgDefs), importsNil |-> FALSE,
            errs |-> <<>>, state |-> pp.state]

\* writeProto3Msg(msg, msgs, state, compressPaths, basePackageName,
\* enumPackageName), with genProto3Msg walking the fields as fNames.
writeProto3Msg(msg, ms, st, compress, basePackageName, enumPackageName, fNames) ==
  writeProto3MsgFrom(msg, compress,
    genProto3Msg(msg, ms, st, compress, basePackageName, enumPackageName, fNames))

----------------------------------------------------------------------------
(* The inputs of the enum emitter. *)

eUP == <<85, 80>>   \* "UP"
eDOWN == <<68, 79, 87, 78>>   \* "DOWN"
eAdB == <<97, 46, 98>>   \* "a.b"
eAsB == <<97, 47, 98>>   \* "a/b"
iB == <<66>>   \* "B"
iA == <<65>>   \* "A"
iC == <<67>>   \* "C"
iAdB == <<65, 46, 66>>   \* "A.B"
iA0B == <<65, 48, 66>>   \* "A0B"
iAsB == <<65, 47, 66>>   \* "A/B"
kE1 == <<69, 49>>   \* "E1"
kE2 == <<69, 50>>   \* "E2"
kE3 == <<69, 51>>   \* "E3"
tTd == <<116, 100>>   \* "td"
tBase == <<98, 97, 115, 101>>   \* "base"
nM == <<109>>   \* "m"

\* Names of enumeration members: plain ones, two that sanitization maps to
\* one symbol, and the reserved word itself.
EnumNames == {eUP, eDOWN, eAdB, eAsB, sUNSET}

\* Ordinals a YANG enum may declare (any int32; -1 is the one that lands on 0).
Ordinals == {-1, 0, 1}

\* yang.EnumType as NameMap() shows it: name -> value, values distinct.
EnumTables ==
  UNION {{t \in [S -> Ordinals] : \A a, b \in S : a # b => t[a] # t[b]} :
           S \in {S \in SUBSET EnumNames : Cardinality(S) \in 1..MaxMembers}}

\* Names of the identities of one base.
IdentityNames == {iB, iA, iC, iAdB, iA0B, iAsB}

\* Identity.Values in declaration order.
IdentityLists ==
  UNION {{v \in [1..n -> IdentityNames] : \A i, j \in 1..n : i # j => v[i] # v[j]} :
           n \in 0..MaxIdentities}

\* A leaf whose type is an enumeration: inline when typeName is
\* "enumeration", a typedef otherwise.
enumLeaf(name, path, typeName, table, default, listAttr) ==
  Entry(name, "Leaf", listAttr, path, <<>>,
        [Kind |-> "Yenum", Name |-> typeName, Enum |-> table,
         IdentityBase |-> NoIdentity, Type |-> <<>>], default)

\* A leaf whose type is an identityref to a base with the given identities.
identityLeaf(name, path, values, listAttr) ==
  Entry(name, "Leaf", listAttr, path, <<>>,
        [Kind |-> "Yidentityref", Name |-> tBase, Enum |-> <<>>,
         IdentityBase |-> [Nil |-> FALSE, Name |-> tBase, Values |-> values],
         Type |-> <<>>], <<>>)

\* A leaf whose type is a union of two enumerations.
unionLeaf(name, path) ==
  Entry(name, "Leaf", FALSE, path, <<>>,
        [Kind |-> "Yunion", Name |-> tTd, Enum |-> <<>>, IdentityBase |-> NoIdentity,
         Type |-> <<"Yenum", "Yenum">>], <<>>)

\* A leaf of a type with no enumerated values at all.
scalarLeaf(name, path, kind, listAttr) ==
  Entry(name, "Leaf", listAttr, path, <<>>,
        [Kind |-> kind, Name |-> <<>>, Enum |-> <<>>, IdentityBase |-> NoIdentity,
         Type |-> <<>>], <<>>)

\* No name handed to the sanitizers.
NoNames == ident = <<>> /\ fieldApps = <<>> /\ enumApps = <<>>

\* No comparator called.
NoCompare == cmpFn = "" /\ cmpA = <<>> /\ cmpB = <<>> /\ cmpOut = <<>>

\* Every shape of enum entry, for a map with one entry.
BroadEnumEntries ==
  {enumLeaf(nM, <<nM, nM>>, tn, t, d, FALSE) :
     tn \in {sEnumeration, tTd}, t \in EnumTables, d \in EnumNames \cup {<<>>}}
  \cup {identityLeaf(nM, <<nM, nM>>, v, FALSE) : v \in IdentityLists}
  \cup {unionLeaf(nM, <<nM, nM>>), scalarLeaf(nM, <<nM, nM>>, "Ystring", FALSE)}

\* One entry of each shape, for maps with several entries.
NarrowEnumEntries ==
  {enumLeaf(nM, <<nM, nM>>, tTd, (eUP :> 0 @@ eDOWN :> 1), <<>>, FALSE),
   enumLeaf(nM, <<nM, nM>>, tTd, (eUP :> 0), eDOWN, FALSE),
   enumLeaf(nM, <<nM, nM>>, sEnumeration, (eUP :> 0), <<>>, FALSE),
   identityLeaf(nM, <<nM, nM>>, <<iB, iA>>, FALSE),
   unionLeaf(nM, <<nM, nM>>),
   scalarLeaf(nM, <<nM, nM>>, "Ystring", FALSE)}

EnumKeys == {kE1, kE2, kE3}

\* yangEnum
yangEnum(name, entry) == [name |-> name, entry |-> entry]

EnumMaps ==
  {(kE1 :> yangEnum(kE1, e)) : e \in BroadEnumEntries}
  \cup UNION {{[k \in K |-> yangEnum(k, f[k])] : f \in [K -> NarrowEnumEntries]} :
                K \in {K \in SUBSET EnumKeys : Cardinality(K) \in 2..MaxEnums}}

\* No call of genProtoEnum yet.
NotCalled == [called |-> FALSE, ok |-> FALSE, Values |-> <<>>, err |-> <<>>]

EmptyState == [uniqueDirectoryNames |-> <<>>, uniqueProtoPackages |-> <<>>]

InitEnums ==
  /\ enums \in EnumMaps
  /\ enumRuns = <<>>
  /\ enumOut = [k \in DOMAIN enums |-> NotCalled]
  /\ msgs = <<>>
  /\ state = EmptyState
  /\ compressPaths = FALSE
  /\ genOut = <<>>
  /\ writeOut = <<>>
  /\ keyOut = <<>>
  /\ NoNames
  /\ NoCompare

\* One run of writeProtoEnums over the enums map.
WriteProtoEnums ==
  /\ Len(enumRuns) < MaxRuns
  /\ \E order \in Orders(DOMAIN enums) :
       enumRuns' = Append(enumRuns, writeProtoEnums(enums, order))
  /\ UNCHANGED <<enums, enumOut>>
  /\ UNCHANGED msgVars
  /\ UNCHANGED nameVars
  /\ UNCHANGED cmpVars

\* A call of genProtoEnum on the entry of one enum of an enumeration type.
GenProtoEnum ==
  /\ \E k \in DOMAIN enums :
       /\ enums[k].entry.Type.Kind = "Yenum"
       /\ ~enumOut[k].called
       /\ LET r == genProtoEnum(enums[k].entry)
          IN  enumOut' = [enumOut EXCEPT ![k] =
                [called |-> TRUE, ok |-> r.ok, Values |-> r.Values, err |-> r.err]]
  /\ UNCHANGED <<enums, enumRuns>>
  /\ UNCHANGED msgVars
  /\ UNCHANGED nameVars
  /\ UNCHANGED cmpVars

NextEnums == WriteProtoEnums \/ GenProtoEnum

SpecEnums == InitEnums /\ [][NextEnums]_vars

----------------------------------------------------------------------------
(* The inputs of the message synthesizer: a module m with a container p,   *)
(* whose message is P, and the directories below it.                       *)

nA == <<97>>   \* "a"
nB == <<98>>   \* "b"
nAhB == <<97, 45, 98>>   \* "a-b"
nAdB == <<97, 46, 98>>   \* "a.b"
nCapA == <<65>>   \* "A"
nP == <<112>>   \* "p"
nCapP == <<80>>   \* "P"

\* yangDirectory; listAttr.Nil stands for a nil *yangListAttr.
yangDirectory(name, entry, fields, path, listAttr) ==
  [name |-> name, entry |-> entry, fields |-> fields, path |-> path,
   listAttr |-> listAttr]

NoListAttr == [Nil |-> TRUE, keys |-> {}]

\* The schema children a directory may have: by name, one of these shapes.
mkField(shape, name, path) ==
  CASE shape = "leaf" -> scalarLeaf(name, path, "Ystring", FALSE)
    [] shape = "leaflist" -> scalarLeaf(name, path, "Ystring", TRUE)
    [] shape = "enum" ->
         enumLeaf(name, path, sEnumeration, (eUP :> 0 @@ eDOWN :> 1), <<>>, FALSE)
    [] shape = "identityref" -> identityLeaf(name, path, <<iB, iA>>, FALSE)
    [] shape = "enumlist" ->
         enumLeaf(name, path, sEnumeration, (eUP :> 0 @@ eDOWN :> 1), <<>>, TRUE)
    [] shape = "typedef" -> enumLeaf(name, path, tTd, (eUP :> 0 @@ eDOWN :> 1), <<>>, FALSE)
    [] shape = "identityreflist" -> identityLeaf(name, path, <<iB, iA>>, TRUE)
    [] shape = "baddefault" -> enumLeaf(name, path, sEnumeration, (eUP :> 0), eDOWN, FALSE)
    [] shape = "untyped" -> scalarLeaf(name, path, "Ynone", FALSE)
    [] shape = "container" -> Entry(name, "Directory", FALSE, path, <<>>, NoType, <<>>)
    [] shape = "unresolved" -> Entry(name, "Directory", FALSE, path, <<>>, NoType, <<>>)
    [] shape = "anydata" -> Entry(name, "AnyData", FALSE, path, <<>>, NoType, <<>>)

\* The functions from at most MaxFields names of N to shapes of Sh.
FieldShapes(N, Sh) ==
  UNION {[S -> Sh] : S \in {S \in SUBSET N : Cardinality(S) <= MaxFields}}

\* msg.fields for a directory at path whose children have the shapes f.
mkFields(f, path) == [n \in DOMAIN f |-> mkField(f[n], n, Append(path, n))]

PPath == <<nM, nP>>

\* The container p with the given children.
dirP(fields) ==
  yangDirectory(nCapP, Entry(nP, "Directory", FALSE, PPath, <<>>, NoType, <<>>),
                fields, PPath, NoListAttr)

\* The directory of a child container: a message without fields.
dirChild(e) == yangDirectory(CamelCase(e.Name), e, <<>>, e.Path, NoListAttr)

\* Names and shapes of the children of a container.
FlatNames == {nB, nA, nAhB, nAdB}
FlatShapes ==
  {"leaf", "leaflist", "enum", "identityref", "untyped", "container", "unresolved",
   "anydata"}

\* msgs for the container p with children of the shapes f: p itself and
\* every child container that the earlier pass resolved.
flatMsgs(f) ==
  LET P == dirP(mkFields(f, PPath))
      kids == {n \in DOMAIN f : f[n] = "container"}
  IN  [q \in {PathString(PPath)} \cup {PathString(Append(PPath, n)) : n \in kids} |->
         IF q = PathString(PPath) THEN P
         ELSE dirChild(P.fields[CHOOSE n \in kids : PathString(Append(PPath, n)) = q])]

\* Names and shapes of the children of a container of enumerated leaves: two
\* names with the same CamelCase form and one that is its own; inline
\* enumerations (single and multi-valued, and one whose default names no
\* member), a typedef enumeration and identityrefs.
LeafNames == {nAhB, nAdB, nCapA}
LeafShapes == {"enum", "enumlist", "typedef", "identityref", "identityreflist", "baddefault"}

\* Names and shapes of the children of an entry without a parent, and msgs
\* for it: the module m itself as a directory.
RootNames == {nA, nB}
RootShapes == {"leaf", "untyped"}
rootMsgs(f) ==
  PathString(<<nM>>) :>
    yangDirectory(CamelCase(nM), Entry(nM, "Directory", FALSE, <<nM>>, <<>>, NoType, <<>>),
                  mkFields(f, <<nM>>), <<nM>>, NoListAttr)

\* Names and shapes of the children of the list a, and its keys in the order
\* of the key statement.
ListNames == {nCapA, nAhB, nAdB}
ListShapes == {"leaf", "enum", "untyped"}
KeyLists ==
  UNION {{k \in [1..n -> ListNames] : \A i, j \in 1..n : i # j => k[i] # k[j]} :
           n \in 0..MaxKeys}

LPath == <<nM, nP, nA>>

\* The list a below p, with the given children and keys; its message is A.
dirL(f, keys) ==
  yangDirectory(nCapA,
                Entry(nA, "Directory", TRUE, LPath, Join(keys, cSpace), NoType, <<>>),
                mkFields(f, LPath), LPath,
                [Nil |-> FALSE, keys |-> Range(keys)])

\* msgs for the container p whose one child is the list a.
listMsgs(f, keys) ==
  LET L == dirL(f, keys)
  IN  (PathString(PPath) :> dirP((nA :> L.entry))) @@ (PathString(LPath) :> L)

\* The registry as the earlier pass leaves it: a message name for every
\* directory of msgs, no package computed yet.
registryFor(ms) ==
  [uniqueDirectoryNames |-> [q \in DOMAIN ms |-> ms[q].name],
   uniqueProtoPackages |-> <<>>]

\* The registries genProto3Msg may be handed: the one of the earlier pass,
\* one that holds the name of p only, and a cold one that holds no name.
Registries(ms) ==
  {[uniqueDirectoryNames |-> [q \in D |-> ms[q].name], uniqueProtoPackages |-> <<>>] :
     D \in {DOMAIN ms, {PathString(PPath)}, {}}}

\* Nothing returned yet.
NoGen == [done |-> FALSE, msgDefs |-> <<>>, errs |-> <<>>]
NoWrite ==
  [done |-> FALSE, pkg |-> <<>>, code |-> <<>>, imports |-> <<>>, importsNil |-> TRUE,
   errs |-> <<>>]
NoKey == [done |-> FALSE, ok |-> FALSE, msg |-> EmptyMsg, err |-> <<>>]

Init ==
  /\ \/ /\ msgs \in {flatMsgs(f) : f \in FieldShapes(FlatNames, FlatShapes)}
        /\ compressPaths = FALSE
        /\ state = registryFor(msgs)
     \/ /\ msgs \in {listMsgs(f, k) : f \in FieldShapes(ListNames, ListShapes),
                                      k \in KeyLists}
        /\ compressPaths \in BOOLEAN
        /\ state \in Registries(msgs)
     \/ /\ msgs \in {flatMsgs(f) : f \in FieldShapes(LeafNames, LeafShapes)}
        /\ compressPaths = FALSE
        /\ state = registryFor(msgs)
     \/ /\ msgs \in {rootMsgs(f) : f \in FieldShapes(RootNames, RootShapes)}
        /\ compressPaths = FALSE
        /\ state = registryFor(msgs)
  /\ genOut = [q \in DOMAIN msgs |-> NoGen]
  /\ writeOut = [q \in DOMAIN msgs |-> NoWrite]
  /\ keyOut = [q \in DOMAIN msgs |-> NoKey]
  /\ enums = <<>>
  /\ enumRuns = <<>>
  /\ enumOut = <<>>
  /\ NoNames
  /\ NoCompare

\* A behaviour exercises one entry point of the synthesizer, on any of the
\* directories and in any order.
NoneGenerated == \A q \in DOMAIN msgs : ~genOut[q].done
NoneWritten == \A q \in DOMAIN msgs : ~writeOut[q].done
NoKeyBuilt == \A q \in DOMAIN msgs : ~keyOut[q].done

\* The call of genProto3Msg on the directory at q returns r.
GenProto3MsgReturns(q, r) ==
  /\ genOut' = [genOut EXCEPT ![q] =
                  [done |-> TRUE, msgDefs |-> r.msgDefs, errs |-> r.errs]]
  /\ state' = r.state

\* A call of genProto3Msg on the directory at q.
GenProto3Msg(q) ==
  /\ ~genOut[q].done
  /\ NoneWritten /\ NoKeyBuilt
  /\ \E fNames \in FieldNameLists(msgs[q]) :
       GenProto3MsgReturns(q,
         genProto3Msg(msgs[q], msgs, state, compressPaths,
                      defaultBasePackageName, defaultEnumPackageName, fNames))
  /\ UNCHANGED <<msgs, compressPaths, writeOut, keyOut>>
  /\ UNCHANGED enumVars
  /\ UNCHANGED nameVars
  /\ UNCHANGED cmpVars

\* The call of writeProto3Msg on the directory at q returns r.
WriteProto3MsgReturns(q, r) ==
  /\ writeOut' = [writeOut EXCEPT ![q] =
                    [done |-> TRUE, pkg |-> r.pkg, code |-> r.code,
                     imports |-> r.imports, importsNil |-> r.importsNil,
                     errs |-> r.errs]]
  /\ state' = r.state

\* A call of writeProto3Msg on the directory at q.
WriteProto3Msg(q) ==
  /\ ~writeOut[q].done
  /\ NoneGenerated /\ NoKeyBuilt
  /\ \E fNames \in FieldNameLists(msgs[q]) :
       WriteProto3MsgReturns(q,
         writeProto3Msg(msgs[q], msgs, state, compressPaths,
                        defaultBasePackageName, defaultEnumPackageName, fNames))
  /\ UNCHANGED <<msgs, compressPaths, genOut, keyOut>>
  /\ UNCHANGED enumVars
  /\ UNCHANGED nameVars
  /\ UNCHANGED cmpVars

\* The call of genListKeyProto on the list at q returns r.
GenListKeyProtoReturns(q, r) ==
  keyOut' = [keyOut EXCEPT ![q] =
               [done |-> TRUE, ok |-> r.ok, msg |-> r.msg, err |-> r.err]]

\* A call of genListKeyProto on the keyed list at q, with the name and the
\* package the registry holds for it.
GenListKeyProto(q) ==
  /\ ~keyOut[q].done
  /\ NoneGenerated /\ NoneWritten
  /\ IsList(msgs[q].entry) /\ msgs[q].entry.Key # <<>>
  /\ q \in DOMAIN state.uniqueDirectoryNames
  /\ LET pp == protobufPackage(state, msgs[q].entry, compressPaths)
     IN  /\ GenListKeyProtoReturns(q,
               genListKeyProto(msgs[q], state.uniqueDirectoryNames[q], pp.pkg))
         /\ state' = pp.state
  /\ UNCHANGED <<msgs, compressPaths, genOut, writeOut>>
  /\ UNCHANGED enumVars
  /\ UNCHANGED nameVars
  /\ UNCHANGED cmpVars

Next ==
  \/ \E q \in DOMAIN msgs : GenProto3Msg(q)
  \/ \E q \in DOMAIN msgs : WriteProto3Msg(q)
  \/ \E q \in DOMAIN msgs : GenListKeyProto(q)

Spec == Init /\ [][Next]_vars

----------------------------------------------------------------------------
(* Properties of the message synthesizer, checked under Spec. *)

Dirs == DOMAIN msgs

\* The message of the directory itself: the last record genProto3Msg returns.
Primary(q) == genOut[q].msgDefs[Len(genOut[q].msgDefs)]

\* Every record genProto3Msg has returned so far.
Records == UNION {Range(genOut[q].msgDefs) : q \in {q \in Dirs : genOut[q].done}}

IsKeyedList(q) == IsList(msgs[q].entry) /\ msgs[q].entry.Key # <<>>

\* The keys of the list at q in the order of its key statement.
KeysOf(q) == Split(msgs[q].entry.Key)

\* The schema children that the fields of a record stand for.
Sources(m) == [i \in 1..Len(m.Fields) |-> m.Fields[i].Src]

\* C1: the fields of the message genProto3Msg returns for a directory are in
\* strictly ascending byte-wise order of the names of the schema children
\* they stand for, whatever order the fields map was walked in.
C1_FieldsInNameOrder ==
  \A q \in Dirs :
    genOut[q].done =>
      \A i \in 1..(Len(Primary(q).Fields) - 1) :
        StrLess(Primary(q).Fields[i].Src, Primary(q).Fields[i + 1].Src)

\* C1's case: a directory with the children b, a and a-b has its message,
\* with the fields a, a-b, b.
C1_Witness ==
  \E q \in Dirs :
    /\ genOut[q].done
    /\ DOMAIN msgs[q].fields = {nB, nA, nAhB}
    /\ Sources(Primary(q)) = <<nA, nAhB, nB>>

\* A child of the list at q that the field loop maps without an error.
MapsWithoutError(q, n) ==
  LET f == msgs[q].fields[n]
  IN  /\ f.Kind = "Leaf"
      /\ yangTypeToProtoType(f, defaultBasePackageName, defaultEnumPackageName).err = <<>>

\* The key wrapper that the parent's run produced for the list at q, if any.
WrappersOf(q) ==
  {m \in Records : /\ q \in DOMAIN state.uniqueDirectoryNames
                   /\ m.Name = state.uniqueDirectoryNames[q] \o sKeySuffix}

\* C3: the message of a keyed list has no field for any of its key leaves
\* and one field for every other child that maps without error; once the
\* parent's messages are generated too, every record that has a field for a
\* key leaf of the list is the list's key wrapper, which has exactly one.
C3_KeysOnlyInWrapper ==
  \A q \in Dirs :
    (IsKeyedList(q) /\ genOut[q].done) =>
      /\ \A k \in Range(KeysOf(q)) : Count(Sources(Primary(q)), k) = 0
      /\ \A n \in DOMAIN msgs[q].fields \ Range(KeysOf(q)) :
           MapsWithoutError(q, n) => Count(Sources(Primary(q)), n) = 1
      /\ \A m \in Records :
           m.YANGPath = EntryPath(msgs[q].entry) =>
             \/ m = Primary(q)
             \/ /\ m \in WrappersOf(q)
                /\ \A k \in Range(KeysOf(q)) : Count(Sources(m), k) = 1

\* C3's case: a list with two keys and another child has its message, and
\* its parent's run has produced the key wrapper.
C3_Witness ==
  \E q \in Dirs :
    /\ IsKeyedList(q) /\ genOut[q].done
    /\ Len(KeysOf(q)) = 2
    /\ Len(Primary(q).Fields) = 1
    /\ \E m \in WrappersOf(q) : m # Primary(q) /\ Len(m.Fields) = 3

\* C4: for a keyed list with the keys k1..kn, genListKeyProto returns the
\* message <listName>_Key with n+1 fields: field i stands for ki and has tag
\* i, and the last has tag n+1 and the type <listPackage>.<listName>.
C4_KeyWrapperLayout ==
  \A q \in Dirs :
    (keyOut[q].done /\ keyOut[q].ok) =>
      LET m == keyOut[q].msg
          n == Len(KeysOf(q))
          listName == state.uniqueDirectoryNames[q]
          listPackage ==
            Join(SubSeq(msgs[q].entry.Path, 1,
                        Len(msgs[q].entry.Path) - (IF compressPaths THEN 2 ELSE 1)), cDot)
      IN  /\ m.Name = listName \o sKeySuffix
          /\ Len(m.Fields) = n + 1
          /\ \A i \in 1..n : m.Fields[i].Src = KeysOf(q)[i] /\ m.Fields[i].Tag = i
          /\ m.Fields[n + 1].Tag = n + 1
          /\ m.Fields[n + 1].Type = listPackage \o <<cDot>> \o listName

\* C4's case: genListKeyProto has built the wrapper of a list whose two keys
\* are declared in descending order.
C4_Witness ==
  \E q \in Dirs :
    /\ keyOut[q].done /\ keyOut[q].ok
    /\ KeysOf(q) = <<nAdB, nAhB>>

\* C5: no two fields of one record returned by genProto3Msg have the same
\* tag.
C5_TagsDistinct ==
  \A m \in Records :
    \A i, j \in 1..Len(m.Fields) : i # j => m.Fields[i].Tag # m.Fields[j].Tag

\* C6: no two fields of one record returned by genProto3Msg have the same
\* name, the key wrapper's reference to the list message included.
C6_FieldNamesDistinct ==
  \A m \in Records :
    \A i, j \in 1..Len(m.Fields) : i # j => m.Fields[i].Name # m.Fields[j].Name

\* A key of the list L for which genListKeyProto returns an error.
KeyFails(L, k) ==
  \/ k \notin DOMAIN L.fields
  \/ /\ k \in DOMAIN L.fields
     /\ \/ yangTypeToProtoScalarType(L.fields[k]).err # <<>>
        \/ /\ L.fields[k].Type.Kind = "Yenum"
           /\ L.fields[k].Type.Name = sEnumeration
           /\ ~genProtoEnum(L.fields[k]).ok

\* The child n of the directory at q is one the field loop cannot map: a
\* list or container that msgs or the registry does not hold, a keyed list
\* with a key that fails, a leaf whose type or enumeration fails, or an
\* entry of another kind.
FailsToMap(q, n) ==
  LET f == msgs[q].fields[n]
      at == EntryPath(f)
  IN  IF IsList(f)
      THEN \/ at \notin DOMAIN msgs
           \/ at \notin DOMAIN state.uniqueDirectoryNames
           \/ /\ at \in DOMAIN msgs
              /\ ~msgs[at].listAttr.Nil /\ msgs[at].listAttr.keys # {}
              /\ \E k \in Range(Split(msgs[at].entry.Key)) : KeyFails(msgs[at], k)
      ELSE IF IsDir(f) THEN at \notin DOMAIN msgs
      ELSE IF IsLeaf(f) \/ IsLeafList(f)
      THEN \/ yangTypeToProtoType(f, defaultBasePackageName, defaultEnumPackageName).err # <<>>
           \/ /\ f.Type.Kind = "Yenum" /\ f.Type.Name = sEnumeration
              /\ ~genProtoEnum(f).ok
      ELSE TRUE

\* The non-key children of the directory at q that fail to map, in
\* ascending order of their names.
Failing(q) ==
  SortedNames({n \in DOMAIN msgs[q].fields \ skipFields(msgs[q]) : FailsToMap(q, n)})

\* The error is about the child n of the directory at q: it names the child
\* or its path, or it is the error of genProtoEnum about the child's default.
ErrorIsFor(err, q, n) ==
  \/ err.subject \in {msgs[q].fields[n].Name, EntryPath(msgs[q].fields[n])}
  \/ err.what = "invalid default" /\ err.subject = msgs[q].fields[n].Default

\* C11: genProto3Msg returns exactly one error for each non-key child that
\* fails to map, in ascending order of the children's names: the loop goes
\* on after an error.
C11_OneErrorPerFailingField ==
  \A q \in Dirs :
    genOut[q].done =>
      /\ Len(genOut[q].errs) = Len(Failing(q))
      /\ \A i \in 1..Len(Failing(q)) : ErrorIsFor(genOut[q].errs[i], q, Failing(q)[i])

\* C11's case: a directory with two failing children and a good one between
\* them in name order has its two errors.
C11_Witness ==
  \E q \in Dirs :
    /\ genOut[q].done
    /\ Failing(q) = <<nA, nB>>
    /\ Sources(Primary(q)) = <<nAhB>>
    /\ Len(genOut[q].errs) = 2

\* The texts of the records that genProto3Msg produces for the directory
\* at q when it walks the fields as fNames.
RenderedRecords(q, fNames) ==
  LET g == genProto3Msg(msgs[q], msgs, registryFor(msgs), compressPaths,
                        defaultBasePackageName, defaultEnumPackageName, fNames)
  IN  [i \in 1..Len(g.msgDefs) |-> msgTemplate(g.msgDefs[i])]

\* C12: when writeProto3Msg returns errors, the package name and the code
\* are empty and the imports are nil; when it returns none, the code holds
\* the text of every record genProto3Msg produced for the directory.
C12_AllOrNothing ==
  \A q \in Dirs :
    writeOut[q].done =>
      /\ writeOut[q].errs # <<>> =>
           /\ writeOut[q].pkg = <<>>
           /\ writeOut[q].code = <<>>
           /\ writeOut[q].importsNil /\ writeOut[q].imports = <<>>
      /\ writeOut[q].errs = <<>> =>
           /\ ~writeOut[q].importsNil
           /\ \E fNames \in FieldNameLists(msgs[q]) :
                writeOut[q].code = RenderedRecords(q, fNames)
           /\ Len(writeOut[q].code) >= 1
      /\ (Failing(q) # <<>> \/ ~HasParent(msgs[q].entry)) => writeOut[q].errs # <<>>

\* C12's case: one call ended with the error of a child that does not map,
\* another with the code of a directory's records.
C12_Witness ==
  /\ \E q \in Dirs :
       /\ writeOut[q].done /\ Failing(q) # <<>>
       /\ writeOut[q].errs # <<>> /\ writeOut[q].code = <<>>
  /\ \E q \in Dirs :
       /\ writeOut[q].done /\ writeOut[q].errs = <<>>
       /\ Len(writeOut[q].code) = 1

\* The entry without a parent: the call ends with that error although every
\* child maps.
C12_NoParentCase ==
  \E q \in Dirs :
    /\ writeOut[q].done /\ ~HasParent(msgs[q].entry) /\ Failing(q) = <<>>
    /\ Len(writeOut[q].errs) = 1 /\ writeOut[q].code = <<>>

\* The registry holds no message name at all.
ColdRegistry == DOMAIN state.uniqueDirectoryNames = {}

\* The errors of the run on q that report a message name the registry does
\* not hold.
NameResolutionErrors(q) ==
  {i \in 1..Len(genOut[q].errs) :
     genOut[q].errs[i].what = "could not find unique message name"}

\* C14: with a cold registry, a list child whose message is in msgs gets a
\* name on first use, so the run reports no name-resolution error; such an
\* error is reported only by a registry that holds names and lacks this one.
C14_ColdRegistryTolerated ==
  \A q \in Dirs :
    genOut[q].done =>
      /\ ColdRegistry => NameResolutionErrors(q) = {}
      /\ NameResolutionErrors(q) # {} =>
           /\ ~ColdRegistry
           /\ \E n \in DOMAIN msgs[q].fields :
                /\ IsList(msgs[q].fields[n])
                /\ EntryPath(msgs[q].fields[n]) \in DOMAIN msgs
                /\ EntryPath(msgs[q].fields[n]) \notin DOMAIN state.uniqueDirectoryNames

\* C16: what genProto3Msg returns is never a mix: with errors it returns no
\* record, and with records no error.
C16_NeverAMix ==
  \A q \in Dirs :
    genOut[q].done => (genOut[q].errs = <<>> \/ genOut[q].msgDefs = <<>>)

\* The package of the message of an entry.
PackageOf(e) == protobufPackage(state, e, compressPaths).pkg

\* The container children of the directory at q whose message msgs holds.
ResolvedContainers(q) ==
  {n \in DOMAIN msgs[q].fields :
     /\ IsDir(msgs[q].fields[n]) /\ ~IsList(msgs[q].fields[n])
     /\ EntryPath(msgs[q].fields[n]) \in DOMAIN msgs}

RequiredImports(q, n) ==
  LET f == msgs[q].fields[n]
  IN  IF n \in ResolvedContainers(q)
      THEN <<ReplaceDotBySlash(PackageOf(msgs[EntryPath(f)].entry))>>
      ELSE IF /\ IsLeaf(f) \/ IsLeafList(f)
              /\ f.Type.Kind \in {"Yenum", "Yidentityref"}
              /\ ~(f.Type.Kind = "Yenum" /\ f.Type.Name = sEnumeration)
      THEN <<SprintfSlash(defaultBasePackageName, defaultEnumPackageName)>>
      ELSE <<>>

\* The elements of s, each at the place of its first occurrence.
RECURSIVE FirstOccurrences(_)
FirstOccurrences(s) ==
  IF s = <<>> THEN <<>>
  ELSE LET front == FirstOccurrences(SubSeq(s, 1, Len(s) - 1))
       IN  IF s[Len(s)] \in Range(front) THEN front ELSE Append(front, s[Len(s)])

RECURSIVE Flatten(_)
Flatten(ss) == IF ss = <<>> THEN <<>> ELSE Head(ss) \o Flatten(Tail(ss))

\* The imports of the directory at q in the order in which its children,
\* taken by ascending name, first require them.
ImportsInOrder(q) ==
  LET names == SortedNames(DOMAIN msgs[q].fields \ skipFields(msgs[q]))
  IN  FirstOccurrences(Flatten([i \in 1..Len(names) |-> RequiredImports(q, names[i])]))

NoDuplicates(s) == \A i, j \in 1..Len(s) : i # j => s[i] # s[j]

\* C19: the imports of every record, and those writeProto3Msg returns, hold
\* no entry twice and are in the order in which the fields, processed by
\* ascending name, first required them.
C19_ImportsDedupedInOrder ==
  /\ \A m \in Records : NoDuplicates(m.Imports)
  /\ \A q \in Dirs :
       /\ genOut[q].done => Primary(q).Imports = ImportsInOrder(q)
       /\ (writeOut[q].done /\ writeOut[q].errs = <<>>) =>
            /\ NoDuplicates(writeOut[q].imports)
            /\ writeOut[q].imports = ImportsInOrder(q)

\* C19's case: three children require imports, two of them the same one,
\* and the message holds the two imports in the order of first use.
C19_Witness ==
  \E q \in Dirs :
    /\ genOut[q].done
    /\ {nA, nAhB, nB} \subseteq DOMAIN msgs[q].fields
    /\ RequiredImports(q, nA) # <<>>
    /\ RequiredImports(q, nAhB) # <<>>
    /\ RequiredImports(q, nB) = RequiredImports(q, nA)
    /\ RequiredImports(q, nAhB) # RequiredImports(q, nA)
    /\ Primary(q).Imports = RequiredImports(q, nA) \o RequiredImports(q, nAhB)

\* The list children of the directory at q that msgs and the registry hold.
ResolvedLists(q) ==
  {n \in DOMAIN msgs[q].fields :
     /\ IsList(msgs[q].fields[n])
     /\ EntryPath(msgs[q].fields[n]) \in DOMAIN msgs
     /\ EntryPath(msgs[q].fields[n]) \in DOMAIN state.uniqueDirectoryNames}

HasKeys(L) == ~L.listAttr.Nil /\ L.listAttr.keys # {}

\* The records of the run on q, other than the message of q itself, that
\* were made for the directory at the path at.
WrapperRecords(q, at) ==
  {i \in 1..(Len(genOut[q].msgDefs) - 1) : genOut[q].msgDefs[i].YANGPath = at}

\* The field of the message of q for the list child n is repeated and has
\* the type <listPackage>.<listMessageName>, and no record was added.
UnkeyedListField(q, n) ==
  LET at == EntryPath(msgs[q].fields[n])
  IN  /\ WrapperRecords(q, at) = {}
      /\ \E i \in 1..Len(Primary(q).Fields) :
           /\ Primary(q).Fields[i].Src = n
           /\ Primary(q).Fields[i].IsRepeated
           /\ Primary(q).Fields[i].Type =
                PackageOf(msgs[at].entry) \o <<cDot>> \o state.uniqueDirectoryNames[at]

\* One key wrapper was added for the list child n, and the field of the
\* message of q for n is repeated and has the wrapper's name as its type.
KeyedListField(q, n) ==
  LET at == EntryPath(msgs[q].fields[n])
  IN  /\ Cardinality(WrapperRecords(q, at)) = 1
      /\ \A w \in WrapperRecords(q, at) :
           /\ genOut[q].msgDefs[w].Name = state.uniqueDirectoryNames[at] \o sKeySuffix
           /\ \E i \in 1..Len(Primary(q).Fields) :
                /\ Primary(q).Fields[i].Src = n
                /\ Primary(q).Fields[i].IsRepeated
                /\ Primary(q).Fields[i].Type = genOut[q].msgDefs[w].Name

\* C20 as the spec states it: every resolved list child without keys gives
\* a repeated field of the list's message type and no record; every one
\* with keys gives one key wrapper and a repeated field of its type.
C20_ListFieldAsClaimed ==
  \A q \in Dirs :
    genOut[q].done =>
      \A n \in ResolvedLists(q) :
        IF HasKeys(msgs[EntryPath(msgs[q].fields[n])])
        THEN KeyedListField(q, n) ELSE UnkeyedListField(q, n)

\* Every key of the list L maps to a key type without error.
KeysMap(L) == \A k \in Range(Split(L.entry.Key)) : ~KeyFails(L, k)

\* C20, amended: the keyed case holds for the lists whose keys all map to a
\* key type; a list with a key that does not gets neither record nor field.
C20_ListField ==
  \A q \in Dirs :
    genOut[q].done =>
      \A n \in ResolvedLists(q) :
        LET at == EntryPath(msgs[q].fields[n])
        IN  IF ~HasKeys(msgs[at]) THEN UnkeyedListField(q, n)
            ELSE IF KeysMap(msgs[at]) THEN KeyedListField(q, n)
            ELSE /\ WrapperRecords(q, at) = {}
                 /\ Count(Sources(Primary(q)), n) = 0

\* C20's case: the run on p has added the wrapper of a list with two keys,
\* and another run has mapped a list without keys.
C20_Witness ==
  \E q \in Dirs :
    /\ genOut[q].done
    /\ \E n \in ResolvedLists(q) :
         /\ Cardinality(msgs[EntryPath(msgs[q].fields[n])].listAttr.keys) = 2
         /\ KeyedListField(q, n)

\* The list without keys.
C20_UnkeyedCase ==
  \E q \in Dirs :
    /\ genOut[q].done
    /\ \E n \in ResolvedLists(q) :
         ~HasKeys(msgs[EntryPath(msgs[q].fields[n])]) /\ UnkeyedListField(q, n)

\* The leaf or leaf-list is an inline enumeration, or one of a shared type:
\* a typedef enumeration or an identityref.
InlineEnumLeaf(f) ==
  (IsLeaf(f) \/ IsLeafList(f)) /\ f.Type.Kind = "Yenum" /\ f.Type.Name = sEnumeration

SharedEnumLeaf(f) ==
  /\ IsLeaf(f) \/ IsLeafList(f)
  /\ f.Type.Kind \in {"Yenum", "Yidentityref"}
  /\ ~InlineEnumLeaf(f)

\* The name of the shared enum type of f in the enum package.
SharedEnumType(f) ==
  defaultBasePackageName \o <<cDot>> \o defaultEnumPackageName \o <<cDot>>
    \o CamelCase(IF f.Type.Kind = "Yidentityref" THEN f.Type.IdentityBase.Name
                 ELSE f.Type.Name)

\* The leaf and leaf-list children of the directory at q that the field loop
\* maps: those that are no key and do not fail.
MappedLeaves(q) ==
  {n \in DOMAIN msgs[q].fields \ skipFields(msgs[q]) :
     /\ IsLeaf(msgs[q].fields[n]) \/ IsLeafList(msgs[q].fields[n])
     /\ ~FailsToMap(q, n)}

\* The places of the fields of the message of q that stand for the child n.
FieldsFor(q, n) == {i \in 1..Len(Primary(q).Fields) : Primary(q).Fields[i].Src = n}

\* C21: a mapped leaf or leaf-list has one field.  For an inline enumeration
\* the field's type is the name of an embedded enum of the message that holds
\* the leaf's value table, a name no other field has as its type; the
\* message has as many embedded enums as mapped inline enumerations.  For a
\* typedef enumeration or an identityref the field's type is the shared enum
\* type, no embedded enum has that name, and <basePackage>/<enumPackage> is
\* among the imports.  The field is repeated exactly when the schema marks
\* the leaf multi-valued.
C21_EnumLeafField ==
  \A q \in Dirs :
    genOut[q].done =>
      /\ Cardinality(DOMAIN Primary(q).Enums) =
           Cardinality({n \in MappedLeaves(q) : InlineEnumLeaf(msgs[q].fields[n])})
      /\ \A n \in MappedLeaves(q) :
           LET f == msgs[q].fields[n]
               P == Primary(q)
           IN  /\ Cardinality(FieldsFor(q, n)) = 1
               /\ \A i \in FieldsFor(q, n) :
                    /\ P.Fields[i].IsRepeated <=> f.ListAttr
                    /\ InlineEnumLeaf(f) =>
                         /\ P.Fields[i].Type \in DOMAIN P.Enums
                         /\ P.Enums[P.Fields[i].Type].Values = genProtoEnum(f).Values
                         /\ \A j \in 1..Len(P.Fields) :
                              j # i => P.Fields[j].Type # P.Fields[i].Type
                    /\ SharedEnumLeaf(f) =>
                         /\ P.Fields[i].Type = SharedEnumType(f)
                         /\ P.Fields[i].Type \notin DOMAIN P.Enums
                         /\ SprintfSlash(defaultBasePackageName, defaultEnumPackageName)
                              \in Range(P.Imports)

\* C21's case: a message with two inline enumerations whose names have the
\* same CamelCase form, one of them multi-valued, and a leaf of a shared
\* enum type: two embedded enums under different names, and the import.
C21_Witness ==
  \E q \in Dirs :
    /\ genOut[q].done
    /\ MappedLeaves(q) = {nAhB, nAdB, nCapA}
    /\ InlineEnumLeaf(msgs[q].fields[nAhB]) /\ InlineEnumLeaf(msgs[q].fields[nAdB])
    /\ msgs[q].fields[nAdB].ListAttr /\ ~msgs[q].fields[nAhB].ListAttr
    /\ SharedEnumLeaf(msgs[q].fields[nCapA])
    /\ CamelCase(nAhB) = CamelCase(nAdB)
    /\ Cardinality(DOMAIN Primary(q).Enums) = 2
    /\ Primary(q).Imports # <<>>

\* The inline enumeration whose default names no member: no field, no
\* embedded enum, one error.
C21_FailingEnumCase ==
  \E q \in Dirs :
    /\ genOut[q].done
    /\ \E n \in DOMAIN msgs[q].fields :
         /\ InlineEnumLeaf(msgs[q].fields[n]) /\ FailsToMap(q, n)
         /\ FieldsFor(q, n) = {}
    /\ DOMAIN Primary(q).Enums = {}
    /\ Len(genOut[q].errs) = 1

\* The import paths returned for the directory at q: those of every record
\* of the run.
NodeImports(q) == UNION {Range(genOut[q].msgDefs[i].Imports) : i \in 1..Len(genOut[q].msgDefs)}

\* The list children of the directory at q that have a field in its message:
\* those without keys refer to the list's message by its package.
UnkeyedListFields(q) ==
  {n \in ResolvedLists(q) :
     ~HasKeys(msgs[EntryPath(msgs[q].fields[n])]) /\ FieldsFor(q, n) # {}}

\* The list children of the directory at q for which the run returned a key
\* wrapper; the wrapper's last field refers to the list's message by its
\* package.
WrappedLists(q) ==
  {n \in ResolvedLists(q) : WrapperRecords(q, EntryPath(msgs[q].fields[n])) # {}}

\* C25: the imports returned for a directory hold the package path of every
\* message that a field refers to by its package: the child's for a
\* container field and for the field of a list without keys, and the list's
\* for the last field of a key wrapper.
C25_ImportsCoverReferences ==
  \A q \in Dirs :
    genOut[q].done =>
      /\ \A n \in ResolvedContainers(q) :
           LET child == msgs[EntryPath(msgs[q].fields[n])]
           IN  \A i \in FieldsFor(q, n) :
                 /\ Primary(q).Fields[i].Type = PackageOf(child.entry) \o <<cDot>> \o child.name
                 /\ ReplaceDotBySlash(PackageOf(child.entry)) \in NodeImports(q)
      /\ \A n \in UnkeyedListFields(q) \cup WrappedLists(q) :
           ReplaceDotBySlash(PackageOf(msgs[EntryPath(msgs[q].fields[n])].entry))
             \in NodeImports(q)

----------------------------------------------------------------------------
(* Properties of the enum emitter, checked under SpecEnums. *)

EnumDefault(k) == enums[k].entry.Default
EnumTable(k) == enums[k].entry.Type.Enum
IsIdentityEnum(k) == ~enums[k].entry.Type.IdentityBase.Nil
HasBadDefault(k) == EnumDefault(k) # <<>> /\ EnumDefault(k) \notin DOMAIN EnumTable(k)

\* C2: two runs of writeProtoEnums over the same enums map return the same
\* sequence of generated enum texts and the same sequence of errors,
\* whatever order the map is walked in.
C2_EnumRunsAgree ==
  \A i, j \in 1..Len(enumRuns) : enumRuns[i] = enumRuns[j]

\* C7: in every successful run, the text of an identity-based enum lists
\* value 0 as UNSET and values 1..n as the sanitized identity names in
\* ascending order, each name as often as the base declares it.
C7_IdentityTable ==
  \A r \in 1..Len(enumRuns), k \in DOMAIN enums :
    (IsIdentityEnum(k) /\ enumRuns[r].errs = <<>>) =>
      \E t \in 1..Len(enumRuns[r].genEnums) :
        LET text == enumRuns[r].genEnums[t]
            members == enums[k].entry.Type.IdentityBase.Values
            n == Len(members)
            clean == [i \in 1..n |-> safeProtoEnumName(members[i])]
            symbols == [i \in 1..n |-> text.Lines[i + 1][2]]
        IN  /\ text.Name = enums[k].name
            /\ Len(text.Lines) = n + 1
            /\ text.Lines[1] = <<0, sUNSET>>
            /\ \A i \in 1..n : text.Lines[i + 1][1] = i
            /\ \A i \in 1..(n - 1) : ~StrLess(symbols[i + 1], symbols[i])
            /\ \A i \in 1..n : Count(symbols, clean[i]) = Count(clean, clean[i])

\* C7's case: the base declares B, A, C and the table is UNSET, A, B, C.
C7_Witness ==
  \E r \in 1..Len(enumRuns), k \in DOMAIN enums :
    /\ IsIdentityEnum(k)
    /\ enums[k].entry.Type.IdentityBase.Values = <<iB, iA, iC>>
    /\ enumRuns[r].errs = <<>>
    /\ enumRuns[r].genEnums[1].Lines = <<<<0, sUNSET>>, <<1, iA>>, <<2, iB>>, <<3, iC>>>>

\* C8: in every table genProtoEnum returns, value 0 is UNSET when no default
\* is declared; with a default, value 0 is the default's sanitized name and
\* no value is UNSET (unless a member is declared under that name); every
\* other declared member sits, sanitized, at its ordinal plus 1.
C8_EnumTableAsClaimed ==
  \A k \in DOMAIN enums :
    (enumOut[k].called /\ enumOut[k].ok) =>
      LET names == EnumTable(k)
          d == EnumDefault(k)
          v == enumOut[k].Values
      IN  /\ 0 \in DOMAIN v
          /\ d = <<>> => v[0] = sUNSET
          /\ d # <<>> =>
               /\ v[0] = safeProtoEnumName(d)
               /\ \A x \in DOMAIN v : v[x] = sUNSET => sUNSET \in DOMAIN names
          /\ \A n \in DOMAIN names \ {d} :
               /\ names[n] + 1 \in DOMAIN v
               /\ v[names[n] + 1] = safeProtoEnumName(n)

IsUpDown(k) ==
  /\ enums[k].entry.Type.Name = sEnumeration
  /\ EnumTable(k) = (eUP :> 0 @@ eDOWN :> 1)
  /\ EnumDefault(k) = eDOWN

\* C9 as the spec states it: UP = 0, DOWN = 1 with default DOWN yields
\* {0: DOWN, 2: UP}.
C9_UpDownAsClaimed ==
  \A k \in DOMAIN enums :
    (enumOut[k].called /\ IsUpDown(k)) =>
      (enumOut[k].ok /\ enumOut[k].Values = (0 :> eDOWN @@ 2 :> eUP))

\* C9, amended: UP = 0, DOWN = 1 with default DOWN yields {0: DOWN, 1: UP}:
\* UP keeps its ordinal plus 1.
C9_UpDownTable ==
  \A k \in DOMAIN enums :
    (enumOut[k].called /\ IsUpDown(k)) =>
      (enumOut[k].ok /\ enumOut[k].Values = (0 :> eDOWN @@ 1 :> eUP))

\* C9's case: genProtoEnum has run on that enumeration.
C9_Witness ==
  \E k \in DOMAIN enums : enumOut[k].called /\ IsUpDown(k)

\* C10: genProtoEnum returns an error and no table exactly when the entry
\* declares a default that names no member; otherwise a table and no error.
C10_DefaultChecked ==
  \A k \in DOMAIN enums :
    enumOut[k].called =>
      /\ HasBadDefault(k) =>
           (~enumOut[k].ok /\ enumOut[k].Values = <<>> /\ Len(enumOut[k].err) = 1)
      /\ ~HasBadDefault(k) =>
           (enumOut[k].ok /\ enumOut[k].err = <<>> /\ 0 \in DOMAIN enumOut[k].Values)

\* C10's case: a call on an entry whose default names no member has failed.
C10_Witness ==
  \E k \in DOMAIN enums :
    enumOut[k].called /\ HasBadDefault(k) /\ ~enumOut[k].ok

\* The enums that writeProtoEnums does not skip, and those of them it
\* cannot generate: a typedef whose default names no member, a union of
\* several enumerations, a type with no enumerated values.
IsInlineEnum(k) ==
  enums[k].entry.Type.Kind = "Yenum" /\ enums[k].entry.Type.Name = sEnumeration

Remaining == {k \in DOMAIN enums : ~IsInlineEnum(k)}

FailingEnums ==
  {k \in Remaining :
     /\ ~IsIdentityEnum(k)
     /\ enums[k].entry.Type.Kind = "Yenum" => HasBadDefault(k)}

\* C13: a run of writeProtoEnums skips the inline enumerations; when none of
\* the others fails it returns one text for each of them and no error; when
\* some fail it returns no text and one error for each that fails.
C13_EnumsAllOrErrors ==
  \A r \in 1..Len(enumRuns) :
    /\ FailingEnums = {} =>
         /\ enumRuns[r].errs = <<>>
         /\ Len(enumRuns[r].genEnums) = Cardinality(Remaining)
         /\ \A k \in Remaining :
              Cardinality({t \in 1..Len(enumRuns[r].genEnums) :
                             enumRuns[r].genEnums[t].Name = enums[k].name}) = 1
    /\ FailingEnums # {} =>
         /\ enumRuns[r].genEnums = <<>>
         /\ Len(enumRuns[r].errs) = Cardinality(FailingEnums)

\* C13's case: a run over an identity enum and a union has returned the
\* union's error and no text.
C13_Witness ==
  \E r \in 1..Len(enumRuns) :
    /\ Cardinality(Remaining) = 2
    /\ \E k \in Remaining : IsIdentityEnum(k)
    /\ \E k \in FailingEnums : Len(enums[k].entry.Type.Type) # 0
    /\ Cardinality(FailingEnums) = 1
    /\ enumRuns[r].genEnums = <<>> /\ Len(enumRuns[r].errs) = 1

\* C17: in every table genProtoEnum returns, value 0 is UNSET when no default
\* is declared and the default's name when one is, whatever the ordinals of
\* the other members are.
C17_ZeroNeverRedefined ==
  \A k \in DOMAIN enums :
    (enumOut[k].called /\ enumOut[k].ok) =>
      /\ 0 \in DOMAIN enumOut[k].Values
      /\ enumOut[k].Values[0] = (IF EnumDefault(k) = <<>> THEN sUNSET ELSE EnumDefault(k))

\* The declared members of the enum k: the identities of its base, or the
\* names of its enumeration.
Members(k) ==
  IF IsIdentityEnum(k) THEN Range(enums[k].entry.Type.IdentityBase.Values)
  ELSE DOMAIN EnumTable(k)

\* The symbols of a value table, as a sequence by ascending value.
SymbolsOf(v) == [i \in 1..Cardinality(DOMAIN v) |-> v[SortedKeys(DOMAIN v)[i]]]

\* The symbols are pairwise distinct, and every member of ms is among them
\* once, under its name or its sanitized name.
DistinctAndComplete(symbols, ms) ==
  /\ NoDuplicates(symbols)
  /\ \A n \in ms :
       Cardinality({i \in 1..Len(symbols) : symbols[i] \in {n, safeProtoEnumName(n)}}) = 1

\* C26: in every value table, of genProtoEnum and of the texts that
\* writeProtoEnums returns, no symbol occurs twice and every declared member
\* occurs once.
C26_SymbolsDistinctAndComplete ==
  /\ \A k \in DOMAIN enums :
       (enumOut[k].called /\ enumOut[k].ok) =>
         DistinctAndComplete(SymbolsOf(enumOut[k].Values), Members(k))
  /\ \A r \in 1..Len(enumRuns) :
       \A t \in 1..Len(enumRuns[r].genEnums) :
         \A k \in DOMAIN enums :
           (enums[k].name = enumRuns[r].genEnums[t].Name
              /\ (IsIdentityEnum(k) \/ enums[k].entry.Type.Kind = "Yenum")) =>
             DistinctAndComplete(
               [i \in 1..Len(enumRuns[r].genEnums[t].Lines) |->
                  enumRuns[r].genEnums[t].Lines[i][2]],
               Members(k))

----------------------------------------------------------------------------
(* The comparators of package testutil (src/unnamed/part_000): pathLess,   *)
(* typedValueLess, updateLess and notificationLess over gNMI messages.     *)
(* A nil pointer is a record whose Nil field is TRUE.                      *)

sZ == <<122>>   \* "z"
s1 == <<49>>   \* "1"
sTrue == <<116, 114, 117, 101>>   \* "true"
sFalse == <<102, 97, 108, 115, 101>>   \* "false"
cBraceOpen == 123
cBraceClose == 125
cZero == 48

\* gnmipb.PathElem and gnmipb.Path
PathElem(name, key) == [Name |-> name, Key |-> key]
Path(elem, origin) == [Elem |-> elem, Origin |-> origin]

\* stringKeys(m) when the range over a map visits the keys in the order ko:
\* the keys of m in that order.
stringKeys(m, ko) == SelectSeq(ko, LAMBDA k : k \in DOMAIN m)

\* What one step of a loop of pathLess leaves: the value returned, or
\* nothing decided yet.
Undecided == [decided |-> FALSE, less |-> FALSE]
Return(less) == [decided |-> TRUE, less |-> less]

\* The loop of pathLess over the sorted keys of two elements, from j on.
RECURSIVE pathLessKeys(_, _, _, _, _)
pathLessKeys(ae, be, aKeys, bKeys, j) ==
  IF j > Len(aKeys) THEN Undecided
  ELSE IF aKeys[j] # bKeys[j] THEN Return(StrLess(aKeys[j], bKeys[j]))
  ELSE IF ae.Key[aKeys[j]] # be.Key[bKeys[j]]
  THEN Return(StrLess(ae.Key[aKeys[j]], be.Key[bKeys[j]]))
  ELSE pathLessKeys(ae, be, aKeys, bKeys, j + 1)

\* A faulty variant: it compares the keys in the order of the range.
pathLessElem_KeysUnsorted(ae, be, ko) ==
  IF ae.Name # be.Name THEN Return(StrLess(ae.Name, be.Name))
  ELSE IF Len(stringKeys(ae.Key, ko)) # Len(stringKeys(be.Key, ko))
  THEN Return(Len(stringKeys(ae.Key, ko)) < Len(stringKeys(be.Key, ko)))
  ELSE pathLessKeys(ae, be, stringKeys(ae.Key, ko), stringKeys(be.Key, ko), 1)

\* The body of the loop of pathLess over the elements: the names, then the
\* number of keys, then the sorted keys.
pathLessElem(ae, be, ko) ==
  IF ae.Name # be.Name THEN Return(StrLess(ae.Name, be.Name))
  ELSE IF Len(stringKeys(ae.Key, ko)) # Len(stringKeys(be.Key, ko))
  THEN Return(Len(stringKeys(ae.Key, ko)) < Len(stringKeys(be.Key, ko)))
  ELSE pathLessKeys(ae, be, SortStrings(stringKeys(ae.Key, ko)),
                    SortStrings(stringKeys(be.Key, ko)), 1)

\* The loop of pathLess over the elements from i on, and what follows it.
RECURSIVE pathLessFrom(_, _, _, _)
pathLessFrom(a, b, i, ko) ==
  IF i > Len(a.Elem)
  THEN (IF a.Origin # b.Origin THEN StrLess(a.Origin, b.Origin) ELSE TRUE)
  ELSE IF pathLessElem(a.Elem[i], b.Elem[i], ko).decided
  THEN pathLessElem(a.Elem[i], b.Elem[i], ko).less
  ELSE pathLessFrom(a, b, i + 1, ko)

\* pathLess(a, b), with every range over a key map visiting the keys as ko.
pathLess(a, b, ko) ==
  IF Len(a.Elem) # Len(b.Elem) THEN Len(a.Elem) > Len(b.Elem)
  ELSE pathLessFrom(a, b, 1, ko)

\* gnmipb.TypedValue: a nil pointer, or one of the oneof wrappers
\* TypedValue_StringVal, TypedValue_IntVal, TypedValue_BoolVal; the fields
\* of the other wrappers are left at their zero values.
NilValue == [Nil |-> TRUE, Kind |-> "nil", Str |-> <<>>, Int |-> 0, Bool |-> FALSE]
StringVal(s) == [Nil |-> FALSE, Kind |-> "StringVal", Str |-> s, Int |-> 0, Bool |-> FALSE]
IntVal(i) == [Nil |-> FALSE, Kind |-> "IntVal", Str |-> <<>>, Int |-> i, Bool |-> FALSE]
BoolVal(x) == [Nil |-> FALSE, Kind |-> "BoolVal", Str |-> <<>>, Int |-> 0, Bool |-> x]

\* fmt.Sprintf("%v", ...) of the wrapper struct that holds the value: the
\* value's text between braces.  The integers of the model have one digit.
Sprintfv(v) ==
  <<cBraceOpen>>
    \o (CASE v.Kind = "StringVal" -> v.Str
          [] v.Kind = "IntVal" -> <<cZero + v.Int>>
          [] v.Kind = "BoolVal" -> IF v.Bool THEN sTrue ELSE sFalse)
    \o <<cBraceClose>>

typedValueStringLess(a, b) == StrLess(Sprintfv(a), Sprintfv(b))

boolLess(a, b) ==
  IF (a /\ b) \/ (~a /\ ~b) THEN TRUE
  ELSE IF a /\ ~b THEN FALSE
  ELSE TRUE

\* typedValueLess(a, b): the nil cases, then values of different types by
\* their texts, then scalars of one type by their values.
typedValueLess(a, b) ==
  IF a.Nil /\ ~b.Nil THEN FALSE
  ELSE IF b.Nil /\ ~a.Nil THEN TRUE
  ELSE IF a.Nil /\ b.Nil THEN TRUE
  ELSE IF a.Kind # b.Kind THEN typedValueStringLess(a, b)
  ELSE CASE a.Kind = "StringVal" -> StrLess(a.Str, b.Str)
         [] a.Kind = "IntVal" -> a.Int < b.Int
         [] a.Kind = "BoolVal" -> boolLess(a.Bool, b.Bool)

\* gnmipb.Update
Update(path, val, duplicates) == [Path |-> path, Val |-> val, Duplicates |-> duplicates]

\* updateLess(a, b)
updateLess(a, b, ko) ==
  IF a = b THEN TRUE
  ELSE IF a.Path # b.Path THEN pathLess(a.Path, b.Path, ko)
  ELSE IF a.Val # b.Val THEN typedValueLess(a.Val, b.Val)
  ELSE a.Duplicates < b.Duplicates

\* The Less of updateSet and of pathSet, by the kind of the slice.
elemLess(kind, x, y, ko) ==
  IF kind = "Update" THEN updateLess(x, y, ko) ELSE pathLess(x, y, ko)

\* The inner loop of the insertion sort that sort.Sort runs on a short
\* slice: the element at j moves left while Less(j, j-1).
RECURSIVE sortInsert(_, _, _, _)
sortInsert(kind, s, j, ko) ==
  IF j > 1 /\ elemLess(kind, s[j], s[j - 1], ko)
  THEN sortInsert(kind, [s EXCEPT ![j] = s[j - 1], ![j - 1] = s[j]], j - 1, ko)
  ELSE s

\* sort.Sort(updateSet(s)) and sort.Sort(pathSet(s)), from the element i on.
RECURSIVE sortFrom(_, _, _, _)
sortFrom(kind, s, i, ko) ==
  IF i > Len(s) THEN s ELSE sortFrom(kind, sortInsert(kind, s, i, ko), i + 1, ko)

sortSort(kind, s, ko) == sortFrom(kind, s, 2, ko)

\* cmp.Equal(x, y, cmpopts.SortSlices(less)): the slices are equal once
\* each is sorted.
cmpEqualSorted(kind, x, y, ko) == sortSort(kind, x, ko) = sortSort(kind, y, ko)

\* The pair at which the nested loops `for uA in x { for uB in y {` first
\* find two elements that are not equal; <<>> when there is none.
firstUnequal(x, y) ==
  LET P == {p \in (1..Len(x)) \X (1..Len(y)) : x[p[1]] # y[p[2]]}
  IN  IF P = {} THEN <<>>
      ELSE CHOOSE p \in P :
             \A r \in P : p[1] < r[1] \/ (p[1] = r[1] /\ p[2] <= r[2])

\* gnmipb.Notification
NilNotification ==
  [Nil |-> TRUE, Timestamp |-> 0, Prefix |-> Path(<<>>, <<>>), Update |-> <<>>,
   Delete |-> <<>>]
Notification(timestamp, prefix, update, delete) ==
  [Nil |-> FALSE, Timestamp |-> timestamp, Prefix |-> prefix, Update |-> update,
   Delete |-> delete]

\* What a call of notificationLess leaves: the value returned, and the two
\* messages as they are now (sort.Sort orders their slices in place).
Returned(less, a, b) == [less |-> less, a |-> a, b |-> b]

\* A block of notificationLess for one of the two slices, once they are
\* sorted in place: the nested loops over sa and sb.
notificationLessLoop(kind, sa, sb, ko) ==
  IF firstUnequal(sa, sb) = <<>> THEN Undecided
  ELSE Return(elemLess(kind, sa[firstUnequal(sa, sb)[1]], sb[firstUnequal(sa, sb)[2]], ko))

\* The block of notificationLess for the Delete slices.
notificationLessDelete(a, b, sa, sb, ko) ==
  IF cmpEqualSorted("Path", a.Delete, b.Delete, ko) THEN Returned(TRUE, a, b)
  ELSE IF Len(a.Delete) < Len(b.Delete) THEN Returned(TRUE, a, b)
  ELSE IF Len(b.Delete) < Len(a.Delete) THEN Returned(FALSE, a, b)
  ELSE Returned(IF notificationLessLoop("Path", sa, sb, ko).decided
                THEN notificationLessLoop("Path", sa, sb, ko).less ELSE TRUE,
                [a EXCEPT !.Delete = sa], [b EXCEPT !.Delete = sb])

\* The block of notificationLess for the Update slices, and what follows.
notificationLessUpdate(a, b, sa, sb, ko) ==
  IF cmpEqualSorted("Update", a.Update, b.Update, ko)
  THEN notificationLessDelete(a, b, sortSort("Path", a.Delete, ko),
                              sortSort("Path", b.Delete, ko), ko)
  ELSE IF Len(a.Update) < Len(b.Update) THEN Returned(TRUE, a, b)
  ELSE IF Len(b.Update) < Len(a.Update) THEN Returned(FALSE, a, b)
  ELSE IF notificationLessLoop("Update", sa, sb, ko).decided
  THEN Returned(notificationLessLoop("Update", sa, sb, ko).less,
                [a EXCEPT !.Update = sa], [b EXCEPT !.Update = sb])
  ELSE notificationLessDelete([a EXCEPT !.Update = sa], [b EXCEPT !.Update = sb],
                              sortSort("Path", a.Delete, ko),
                              sortSort("Path", b.Delete, ko), ko)

\* notificationLess(a, b)
notificationLess(a, b, ko) ==
  IF a.Nil THEN Returned(TRUE, a, b)
  ELSE IF b.Nil THEN Returned(FALSE, a, b)
  ELSE IF a = b THEN Returned(TRUE, a, b)
  ELSE IF a.Timestamp # b.Timestamp THEN Returned(a.Timestamp < b.Timestamp, a, b)
  ELSE IF a.Prefix # b.Prefix THEN Returned(pathLess(a.Prefix, b.Prefix, ko), a, b)
  ELSE notificationLessUpdate(a, b, sortSort("Update", a.Update, ko),
                              sortSort("Update", b.Update, ko), ko)

----------------------------------------------------------------------------
(* The arguments the comparators are called on. *)

ElemNames == {nA, nB}
KeyNames == {nA, nB, sZ}
KeyValues == {nA, sZ}
Origins == {nA, sZ}

\* PathElem.Key: at most MaxPathKeys keys.
KeyMaps ==
  UNION {[S -> KeyValues] : S \in {S \in SUBSET KeyNames : Cardinality(S) <= MaxPathKeys}}

PlainElems == {PathElem(n, <<>>) : n \in ElemNames}
KeyedElems == {PathElem(nA, k) : k \in KeyMaps \ {<<>>}}

\* Paths of at most MaxElems elements without keys, under either origin.
PlainPaths ==
  UNION {{Path(e, o) : e \in [1..n -> PlainElems], o \in Origins} : n \in 0..MaxElems}

\* Paths with one element that has keys: the entry of a list.
KeyedPaths ==
  UNION {{Path([e EXCEPT ![i] = k], nA) :
            e \in [1..n -> PlainElems], i \in 1..n, k \in KeyedElems} : n \in 1..MaxElems}

Paths == PlainPaths \cup KeyedPaths

\* Typed values: nil, and two values of each scalar kind; the string "1"
\* has the text of the integer 1.
TypedValues ==
  {NilValue, StringVal(s1), StringVal(nA), IntVal(1), IntVal(2), BoolVal(FALSE),
   BoolVal(TRUE)}

pathA == Path(<<PathElem(nA, <<>>)>>, <<>>)
pathB == Path(<<PathElem(nB, <<>>)>>, <<>>)
pathAB == Path(<<PathElem(nA, <<>>), PathElem(nB, <<>>)>>, <<>>)

\* Updates that differ in the path, in the value or in the duplicates.
Updates ==
  {Update(pathA, StringVal(nA), 0), Update(pathA, StringVal(sZ), 0),
   Update(pathB, StringVal(nA), 0), Update(pathA, StringVal(nA), 1)}

\* The slices of at most MaxUpdates elements of S.
Slices(S) == UNION {[1..n -> S] : n \in 0..MaxUpdates}

\* Notifications: nil; those that differ in the timestamp or the prefix;
\* those that differ in the updates; those that differ in the deletes.
Notifications ==
  {NilNotification}
  \cup {Notification(t, p, <<>>, <<>>) : t \in {1, 2}, p \in {pathA, pathB}}
  \cup {Notification(1, pathA, u, <<>>) : u \in Slices(Updates)}
  \cup {Notification(1, pathA, <<>>, d) : d \in Slices({pathA, pathB, pathAB})}

InitLess ==
  /\ \/ cmpFn = "pathLess" /\ cmpA \in Paths /\ cmpB \in Paths
     \/ cmpFn = "typedValueLess" /\ cmpA \in TypedValues /\ cmpB \in TypedValues
     \/ cmpFn = "notificationLess" /\ cmpA \in Notifications /\ cmpB \in Notifications
  /\ cmpOut = <<>>
  /\ msgs = <<>>
  /\ state = <<>>
  /\ compressPaths = FALSE
  /\ genOut = <<>>
  /\ writeOut = <<>>
  /\ keyOut = <<>>
  /\ enums = <<>>
  /\ enumRuns = <<>>
  /\ enumOut = <<>>
  /\ NoNames

\* A call pathLess(cmpA, cmpB).
PathLess ==
  /\ cmpFn = "pathLess" /\ cmpOut = <<>>
  /\ \E ko \in Orders(KeyNames) : cmpOut' = <<pathLess(cmpA, cmpB, ko)>>
  /\ UNCHANGED <<cmpFn, cmpA, cmpB>>
  /\ UNCHANGED msgVars
  /\ UNCHANGED enumVars
  /\ UNCHANGED nameVars

\* A call typedValueLess(cmpA, cmpB).
TypedValueLess ==
  /\ cmpFn = "typedValueLess" /\ cmpOut = <<>>
  /\ cmpOut' = <<typedValueLess(cmpA, cmpB)>>
  /\ UNCHANGED <<cmpFn, cmpA, cmpB>>
  /\ UNCHANGED msgVars
  /\ UNCHANGED enumVars
  /\ UNCHANGED nameVars

\* The call notificationLess(cmpA, cmpB) returns r.
NotificationLessReturns(r) ==
  /\ cmpOut' = Append(cmpOut, r.less)
  /\ cmpA' = r.a
  /\ cmpB' = r.b

\* The call notificationLess(cmpB, cmpA) returns r.
NotificationLessSwappedReturns(r) ==
  /\ cmpOut' = Append(cmpOut, r.less)
  /\ cmpA' = r.b
  /\ cmpB' = r.a

\* A call notificationLess(cmpA, cmpB), and after it one with the arguments
\* the other way round.
NotificationLess ==
  /\ cmpFn = "notificationLess" /\ Len(cmpOut) < 2
  /\ \E ko \in Orders(KeyNames) :
       IF cmpOut = <<>> THEN NotificationLessReturns(notificationLess(cmpA, cmpB, ko))
       ELSE NotificationLessSwappedReturns(notificationLess(cmpB, cmpA, ko))
  /\ UNCHANGED cmpFn
  /\ UNCHANGED msgVars
  /\ UNCHANGED enumVars
  /\ UNCHANGED nameVars

NextLess == PathLess \/ TypedValueLess \/ NotificationLess

SpecLess == InitLess /\ [][NextLess]_vars

----------------------------------------------------------------------------
(* Properties of the comparators, checked under SpecLess. *)

\* The places where the elements of two paths of one length differ.
DifferingElems(a, b) == {i \in 1..Len(a.Elem) : a.Elem[i] # b.Elem[i]}

\* The key names of an element in ascending order.
KeysInOrder(e) == SortedNames(DOMAIN e.Key)

\* The places in the sorted keys of two elements with equally many keys
\* where the key names or the values of the keys differ.
DifferingKeys(ae, be) ==
  {j \in 1..Len(KeysInOrder(ae)) :
     \/ KeysInOrder(ae)[j] # KeysInOrder(be)[j]
     \/ ae.Key[KeysInOrder(ae)[j]] # be.Key[KeysInOrder(be)[j]]}

\* Two elements that differ: by ascending name, then by fewer keys, then at
\* the first sorted key that differs by its name, then by its value.
ElemBefore(ae, be) ==
  IF ae.Name # be.Name THEN StrLess(ae.Name, be.Name)
  ELSE IF Cardinality(DOMAIN ae.Key) # Cardinality(DOMAIN be.Key)
  THEN Cardinality(DOMAIN ae.Key) < Cardinality(DOMAIN be.Key)
  ELSE LET j == Min(DifferingKeys(ae, be))
           ak == KeysInOrder(ae)[j]
           bk == KeysInOrder(be)[j]
       IN  IF ak # bk THEN StrLess(ak, bk) ELSE StrLess(ae.Key[ak], be.Key[bk])

\* The order of the paths as it is described.
PathBefore(a, b) ==
  IF Len(a.Elem) > Len(b.Elem) THEN TRUE
  ELSE IF Len(a.Elem) < Len(b.Elem) THEN FALSE
  ELSE IF DifferingElems(a, b) # {}
  THEN ElemBefore(a.Elem[Min(DifferingElems(a, b))], b.Elem[Min(DifferingElems(a, b))])
  ELSE IF a.Origin # b.Origin THEN StrLess(a.Origin, b.Origin)
  ELSE TRUE

C22_ValueBeforeLaterName ==
  /\ cmpFn = "pathLess" /\ cmpOut = <<FALSE>>
  /\ cmpA = Path(<<PathElem(nA, (nA :> sZ @@ nB :> nA))>>, nA)
  /\ cmpB = Path(<<PathElem(nA, (nA :> nA @@ sZ :> nA))>>, nA)

\* C23: typedValueLess(nil, b) is true and typedValueLess(a, nil) is false
\* for a and b that are not nil, and typedValueLess(nil, nil) is true.
C23_NilIsLess ==
  (cmpFn = "typedValueLess" /\ cmpOut # <<>>) =>
    /\ (cmpA.Nil /\ ~cmpB.Nil) => cmpOut[1] = TRUE
    /\ (~cmpA.Nil /\ cmpB.Nil) => cmpOut[1] = FALSE
    /\ (cmpA.Nil /\ cmpB.Nil) => cmpOut[1] = TRUE

\* Two notifications are the same message, their slices taken as sorted.
SameNotification(a, b) ==
  /\ a.Nil = b.Nil /\ a.Timestamp = b.Timestamp /\ a.Prefix = b.Prefix
  /\ \A ko \in Orders(KeyNames) :
       /\ cmpEqualSorted("Update", a.Update, b.Update, ko)
       /\ cmpEqualSorted("Path", a.Delete, b.Delete, ko)

\* C24: of notificationLess(a, b) and notificationLess(b, a), exactly one is
\* true when a and b are not the same notification.
C24_TotalOrder ==
  (cmpFn = "notificationLess" /\ Len(cmpOut) = 2 /\ ~SameNotification(cmpA, cmpB)) =>
    cmpOut[1] # cmpOut[2]

====
